---- MODULE Spec2Model ----
(***************************************************************************)
(* cronlet: the execution engine (ExecutionEngine.run with its event bus), *)
(* entered through CronScheduler.executeJob or CronletWorker.executeJob,   *)
(* which wrap engine.run with an in-flight table, and the graceful         *)
(* shutdown of the two (CronScheduler.shutdown, CronletWorker.stop and its *)
(* signal handlers).  One step of the model is one synchronous segment of  *)
(* the JavaScript code: everything from one await to the next, the         *)
(* microtasks that a settled promise sets going included.                  *)
(***************************************************************************)
EXTENDS Integers, Sequences, FiniteSets, TLC

VARIABLES
    listeners,      \* ExecutionEngine.listeners: event key -> listeners, in insertion order
    run,            \* the state of each call of engine.run
    emitted,        \* every event handed to ExecutionEngine.emit, in order
    delivered,      \* every listener invocation, in order
    exec,           \* the state of each call of CronScheduler.executeJob
    execResult,     \* what each call of CronScheduler.executeJob returned
    inFlightJobs,   \* CronScheduler.inFlightJobs (its keys)
    shuttingDown,   \* CronScheduler.shuttingDown
    sd,             \* the state of each call of CronScheduler.shutdown
    worker,         \* the fields of the CronletWorker, and whether the process has exited
    wstart,         \* the state of each call of CronletWorker.start
    wstop,          \* the state of each call of CronletWorker.stop
    wexec,          \* the state of each call of CronletWorker.executeJob
    inFlight,       \* CronletWorker.inFlight: a set of entries [key, r]
    now,            \* Date.now(), in milliseconds
    handles,        \* the unsubscribe functions that ExecutionEngine.on has returned
    registry,       \* JobRegistry.jobs: the registered jobs, in insertion order
    dash,           \* the dashboard server's state: runningJobs and history
    scheduler,      \* CronScheduler.running and scheduledJobs, and the Cron objects made
    onJobComplete,  \* the calls of WorkerOptions.onJobComplete made so far
    calc            \* a call of one of the library's pure functions, and its outcome

schedVars == <<exec, execResult, inFlightJobs, shuttingDown, sd>>
workerVars == <<worker, wstart, wstop, wexec, inFlight>>
libVars == <<handles, registry, calc, scheduler>>
vars == <<listeners, run, emitted, delivered, exec, execResult, inFlightJobs,
          shuttingDown, sd, worker, wstart, wstop, wexec, inFlight, now,
          handles, registry, dash, calc, scheduler,
          onJobComplete>>

(***************************************************************************)
(* Bounds of the model.                                                    *)
(***************************************************************************)
MaxAttempts == 3    \* the largest retry.attempts a job is given
MaxSubs == 2        \* the most subscriptions the listener table holds
MaxNow == 1         \* the milliseconds Date.now() advances by

ListenerIds == {"L1", "L2"}
EngineCalls == {1}  \* the calls of executeJob (and so of engine.run) that Spec follows

(***************************************************************************)
(* Events and the listener table.                                          *)
(***************************************************************************)
EventTypes == {"job:start", "job:success", "job:failure", "job:retry", "job:timeout"}
TerminalTypes == {"job:success", "job:failure", "job:timeout"}
EventKeys == EventTypes \cup {"*"}

Range(s) == {s[i] : i \in 1..Len(s)}

RECURSIVE SumOver(_, _)
SumOver(f, S) ==
    IF S = {} THEN 0
    ELSE LET x == CHOOSE y \in S : TRUE IN f[x] + SumOver(f, S \ {x})

NumSubs(tbl) == SumOver([k \in EventKeys |-> Len(tbl[k])], EventKeys)

\* on(): a Set keeps insertion order and ignores an element it already holds
on(tbl, key, l) ==
    [tbl EXCEPT ![key] = IF l \in Range(@) THEN @ ELSE Append(@, l)]

\* the listeners emit() invokes for an event, in the order it invokes them
EmitTargets(tbl, type) == tbl[type] \o tbl["*"]

\* emit(): the listeners are invoked one after the other with no try/catch;
\* `thrower` is the position of the first listener that throws (0: none
\* throws), and the listeners after it are not invoked.
emit(bus, tbl, type, r, att, thrower) ==
    LET targets == EmitTargets(tbl, type)
        n       == Len(targets)
        inv     == IF thrower = 0 THEN n ELSE thrower
        idx     == Len(bus.emitted) + 1
        ev      == [type |-> type, runId |-> r, attempt |-> att,
                    targets |-> n, invoked |-> inv, threw |-> thrower # 0]
    IN  [emitted   |-> Append(bus.emitted, ev),
         delivered |-> bus.delivered \o
                       [i \in 1..inv |-> [listener |-> targets[i], event |-> idx]]]

\* The listeners of the worker (wireEngineEvents) log and call the callbacks
\* of the WorkerOptions, which do not throw here.  Any other listener may
\* throw.
WiredIds ==
    << <<"W1.1", "W1.2", "W1.3", "W1.4", "W1.5", "W1.6", "W1.7">>,
       <<"W2.1", "W2.2", "W2.3", "W2.4", "W2.5", "W2.6", "W2.7">> >>
WiredKeys ==
    <<"job:start", "job:success", "job:failure", "job:timeout", "job:retry",
      "job:success", "job:failure">>
Wired == UNION {Range(WiredIds[g]) : g \in DOMAIN WiredIds}

\* the listener that the dashboard's createServer subscribes under "*"; it
\* updates the server's state and does not throw
Dashboard == "D"

ThrowChoices(tbl, type) ==
    {0} \cup {i \in 1..Len(EmitTargets(tbl, type)) :
                 EmitTargets(tbl, type)[i] \notin Wired \cup {Dashboard}}

(***************************************************************************)
(* Jobs: the part of JobDefinition.config that engine.run reads.           *)
(***************************************************************************)
Jobs ==
    { [id |-> "a", hasRetry |-> hr, attempts |-> n, delayOk |-> d,
       timeoutOk |-> t, onSuccess |-> s, onFailure |-> f] :
         hr \in BOOLEAN, n \in 0..MaxAttempts, d \in BOOLEAN,
         t \in BOOLEAN, s \in BOOLEAN, f \in BOOLEAN }

\* a job without retry carries no attempts and no initialDelay
JobInputs == {j \in Jobs : j.hasRetry \/ (j.attempts = 1 /\ j.delayOk)}

DEFAULT_RETRY_ATTEMPTS == 1

\* const maxAttempts = job.config.retry?.attempts ?? 1
maxAttempts(job) == IF job.hasRetry THEN job.attempts ELSE 1

\* shouldRetry(attempt, config): config.attempts || DEFAULT_RETRY_CONFIG.attempts
shouldRetry(attempt, job) ==
    LET m == IF job.attempts = 0 THEN DEFAULT_RETRY_ATTEMPTS ELSE job.attempts
    IN  attempt < m

isTimeoutError(err) == err = "TimeoutError"

InitialAttemptZero == 1 - 1
\* let attempt = 1
InitialAttempt == 1

TerminalStatusAlwaysFailure(isTimeout) == "failure"
\* status: isTimeout ? "timeout" : "failure"
TerminalStatus(isTimeout) == IF isTimeout THEN "timeout" ELSE "failure"

TerminalEvent(isTimeout) == IF isTimeout THEN "job:timeout" ELSE "job:failure"

NoJob == [id |-> "none", hasRetry |-> FALSE, attempts |-> 1, delayOk |-> TRUE,
          timeoutOk |-> TRUE, onSuccess |-> FALSE, onFailure |-> FALSE]
NoResult == [status |-> "none", attempt |-> 0, error |-> "none"]

IdleRun ==
    [pc |-> "idle", job |-> NoJob, attempt |-> 0, pending |-> "none",
     handlerCalls |-> 0, lastError |-> "none", result |-> NoResult,
     errors |-> <<>>, timedOut |-> {}, running |-> {}, aborted |-> FALSE,
     succeeded |-> FALSE, callsAtSuccess |-> 0,
     onSuccessCalls |-> 0, onFailureCalls |-> 0, callbackThrew |-> FALSE]

(***************************************************************************)
(* The synchronous segments of engine.run.  Each takes the run's record s  *)
(* and the bus (emitted, delivered) and gives the two after the segment.   *)
(***************************************************************************)

\* The head of the while loop up to the await in executeAttempt: the
\* timeout is parsed before the handler is called, and the handler is called
\* synchronously.  Past the loop, the "should never reach here" return.
LoopHead(s) ==
    IF s.attempt <= maxAttempts(s.job)
    THEN IF s.job.timeoutOk
         THEN [s EXCEPT !.pc = "attempt", !.pending = "handler",
                        !.handlerCalls = @ + 1,
                        !.running = @ \cup {s.attempt}]
         ELSE [s EXCEPT !.pc = "attempt", !.pending = "parseError"]
    ELSE [s EXCEPT !.pc = "returned", !.pending = "none",
                   !.result = [status |-> "failure", attempt |-> s.attempt,
                               error |-> IF s.lastError = "none"
                                         THEN "Unknown error" ELSE s.lastError]]

\* run() up to its first await: emit job:start (outside any try), then the loop
RunStart(s0, bus, tbl, r, job, k) ==
    LET s  == [s0 EXCEPT !.job = job, !.attempt = InitialAttempt]
        b1 == emit(bus, tbl, "job:start", r, s.attempt, k)
    IN  IF k # 0
        THEN [s |-> [s EXCEPT !.pc = "rejected"], b |-> b1]
        ELSE [s |-> LoopHead(s), b |-> b1]

\* catch (err) { ... }: retry (emit job:retry, compute the delay, sleep) or
\* the terminal failure (emit, then onFailure).  Nothing here is inside a
\* try, so a throwing listener or an unparsable initialDelay rejects run().
Catch(s0, bus, tbl, r, err, k) ==
    LET s         == [s0 EXCEPT !.lastError = err, !.pending = "none",
                                !.result = NoResult,
                                !.errors = Append(@, err)]
        isTimeout == isTimeoutError(err)
    IN  IF s.job.hasRetry /\ shouldRetry(s.attempt, s.job)
        THEN LET b1 == emit(bus, tbl, "job:retry", r, s.attempt, k)
             IN  IF k # 0 \/ ~s.job.delayOk
                 THEN [s |-> [s EXCEPT !.pc = "rejected"], b |-> b1]
                 ELSE [s |-> [s EXCEPT !.pc = "sleep"], b |-> b1]
        ELSE LET res == [status |-> TerminalStatus(isTimeout),
                         attempt |-> s.attempt, error |-> err]
                 b1  == emit(bus, tbl, TerminalEvent(isTimeout), r, s.attempt, k)
             IN  IF k # 0
                 THEN [s |-> [s EXCEPT !.pc = "rejected"], b |-> b1]
                 ELSE IF s.job.onFailure
                 THEN [s |-> [s EXCEPT !.pc = "onFailure", !.result = res,
                                       !.onFailureCalls = @ + 1],
                       b |-> b1]
                 ELSE [s |-> [s EXCEPT !.pc = "returned", !.result = res],
                       b |-> b1]

\* the event Catch emits for s and err
CatchEvent(s, err) ==
    IF s.job.hasRetry /\ shouldRetry(s.attempt, s.job)
    THEN "job:retry" ELSE TerminalEvent(isTimeoutError(err))

\* Success with the call of onSuccess left out
SuccessSkipsCallback(s0, bus, tbl, r, k1, k2) ==
    LET s   == [s0 EXCEPT !.pending = "none", !.succeeded = TRUE,
                          !.callsAtSuccess = IF s0.succeeded THEN @
                                             ELSE s0.handlerCalls]
        res == [status |-> "success", attempt |-> s.attempt, error |-> "none"]
        b1  == emit(bus, tbl, "job:success", r, s.attempt, k1)
    IN  IF k1 # 0
        THEN Catch(s, b1, tbl, r, "Error", k2)
        ELSE [s |-> [s EXCEPT !.pc = "returned", !.result = res], b |-> b1]

\* after executeAttempt resolved: build the result, emit job:success (inside
\* the try: a throwing listener lands in catch), then onSuccess
Success(s0, bus, tbl, r, k1, k2) ==
    LET s   == [s0 EXCEPT !.pending = "none", !.succeeded = TRUE,
                          !.callsAtSuccess = IF s0.succeeded THEN @
                                             ELSE s0.handlerCalls]
        res == [status |-> "success", attempt |-> s.attempt, error |-> "none"]
        b1  == emit(bus, tbl, "job:success", r, s.attempt, k1)
    IN  IF k1 # 0
        THEN Catch(s, b1, tbl, r, "Error", k2)
        ELSE IF s.job.onSuccess
        THEN [s |-> [s EXCEPT !.pc = "onSuccess", !.result = res,
                              !.onSuccessCalls = @ + 1],
              b |-> b1]
        ELSE [s |-> [s EXCEPT !.pc = "returned", !.result = res], b |-> b1]

CallbackErrorPropagates(s, threw) == IF threw THEN "rejected" ELSE "returned"
\* try { await callback(...) } catch { /* ignore */ }  then  return result
AfterCallback(s, threw) == "returned"

Bus == [emitted |-> emitted, delivered |-> delivered]

AwaitedNone(s) == {}
\* await Promise.race([handlerPromise, timeoutPromise]) went on because the
\* handler's promise settled: the invocation of the current attempt is over
Awaited(s) == {s.attempt}

(***************************************************************************)
(* CronScheduler: executeJob and shutdown.                                 *)
(***************************************************************************)
\* the calls are told apart by their number; the scheduler's own runId
\* (run_<now>_<random>) is taken to be fresh for every call
jobIdOf(r) == run[r].job.id

\* the ExecutionResult executeJob returns when the scheduler is shutting down
SkippedResult ==
    [status |-> "failure", attempt |-> 0, error |-> "Scheduler is shutting down",
     runId |-> <<"skipped">>]

\* the ExecutionResult of engine.run, as executeJob hands it on
Returns(r, res) ==
    [status |-> res.status, attempt |-> res.attempt, error |-> res.error,
     runId |-> <<"run", r>>]

NoExecResult == [status |-> "none", attempt |-> 0, error |-> "none", runId |-> <<>>]

SkipsNever(flag) == FALSE
SkipsIfRunning(flag) == flag \/ inFlightJobs # {}
\* if (this.shuttingDown) { return { ... } }
Skips(flag) == flag

NoShutdown ==
    [state |-> "none", outcome |-> "none", entries |-> {}, pending |-> {},
     completed |-> <<>>, atReturn |-> 0, interrupted |-> <<>>]

\* the keys of a Map in its iteration order: the order of insertion, which
\* is the order of the calls
RECURSIVE InOrder(_)
InOrder(S) ==
    IF S = {} THEN <<>>
    ELSE LET m == CHOOSE x \in S : \A y \in S : x <= y
         IN  <<m>> \o InOrder(S \ {m})

\* shutdown's callback for the entry r once r's promise has settled (either
\* way): completed.push(jobId); when it was the last one, Promise.all
\* resolves and, if the timer has not won the race, shutdown returns
AfterPromise(d, r, jid) ==
    IF r \notin d.pending THEN d
    ELSE LET c    == Append(d.completed, jid)
             pend == d.pending \ {r}
         IN  IF d.state = "waiting" /\ pend = {}
             THEN [d EXCEPT !.completed = c, !.pending = pend,
                            !.state = "returned", !.outcome = "done",
                            !.atReturn = Len(c)]
             ELSE [d EXCEPT !.completed = c, !.pending = pend]

\* for (const [, inFlight] of this.inFlightJobs)
\*     if (!completed.includes(inFlight.jobId)) interrupted.push(inFlight.jobId)
Interrupted(table, completed) ==
    SelectSeq([i \in 1..Len(InOrder(table)) |-> jobIdOf(InOrder(table)[i])],
              LAMBDA j : j \notin Range(completed))

KeptFlag == TRUE
\* this.shuttingDown = false, before shutdown returns from its wait
ClearedFlag == FALSE

RaceWithoutTimer(d) == IF d.pending = {} THEN {"done"} ELSE {}
\* Promise.race([allJobsPromise, timeoutPromise]): what it can still resolve to
RaceOutcomes(d) == {"timeout"} \cup (IF d.pending = {} THEN {"done"} ELSE {})

\* The promise of engine.run for the call r settles as pc: in the same turn
\* of the event loop executeJob's finally deletes the entry and every
\* shutdown that awaits the promise goes on
Settle(r, pc, res) ==
    /\ exec' = [exec EXCEPT ![r] = pc]
    /\ execResult' = [execResult EXCEPT ![r] =
                        IF pc = "returned" THEN Returns(r, res) ELSE @]
    /\ inFlightJobs' = inFlightJobs \ {r}
    /\ sd' = [x \in DOMAIN sd |-> AfterPromise(sd[x], r, jobIdOf(r))]
    /\ shuttingDown' = IF \E x \in DOMAIN sd : /\ sd[x].state = "waiting"
                                               /\ sd'[x].state = "returned"
                       THEN ClearedFlag ELSE shuttingDown

(***************************************************************************)
(* CronletWorker: start, stop, executeJob and the signal handlers.         *)
(***************************************************************************)
\* the worker after construction; healthCheck is the option
\* healthCheck.enabled, handlers the number of times registerSignalHandlers
\* has run, exited whether process.exit(0) has been called
\* crons: this.crons holds a Cron for the job; armed: the Cron objects made
\* by start() for the job that no cron.stop() has stopped
NewWorker(healthCheck) ==
    [running |-> FALSE, shuttingDown |-> FALSE, healthCheck |-> healthCheck,
     healthServer |-> FALSE, crons |-> FALSE, armed |-> 0, handlers |-> 0,
     exited |-> FALSE]

NoStop ==
    [state |-> "none", kind |-> "none", pending |-> {}, exit |-> FALSE,
     started |-> FALSE]
NoWorkerCall == [state |-> "none", key |-> <<>>]

(***************************************************************************)
(* JobRegistry, as far as the dashboard reads it, and the dashboard.       *)
(***************************************************************************)
JobIds == {"a", "b"}
Undefined == [id |-> "undefined", v |-> 0]

\* this.jobs.has(id)
has(reg, id) == \E i \in 1..Len(reg) : reg[i].id = id

\* this.jobs.get(id)
getById(reg, id) ==
    IF has(reg, id) THEN reg[CHOOSE i \in 1..Len(reg) : reg[i].id = id] ELSE Undefined

MAX_HISTORY_PER_JOB == 50

\* const state = { history: new Map(), runningJobs: new Set(), ... }; a job
\* without an entry in the map has the empty history
NewDashboard == [runningJobs |-> {}, history |-> [id \in JobIds |-> <<>>]]

HistoryStatus(type) ==
    IF type = "job:success" THEN "success"
    ELSE IF type = "job:timeout" THEN "timeout" ELSE "failure"

KeepAll(h) == h
\* if (jobHistory.length > MAX_HISTORY_PER_JOB) jobHistory.pop()
Trim(h) == IF Len(h) > MAX_HISTORY_PER_JOB THEN SubSeq(h, 1, Len(h) - 1) ELSE h

\* the listener of createServer, called with event ev of a run of job jobId
DashboardListener(d, reg, ev, jobId) ==
    IF ev.type = "job:start"
    THEN [d EXCEPT !.runningJobs = @ \cup {jobId}]
    ELSE IF ev.type \in {"job:success", "job:failure", "job:timeout"}
    THEN LET entry == [runId |-> ev.runId, status |-> HistoryStatus(ev.type),
                       attempt |-> ev.attempt]
         IN  IF getById(reg, jobId) # Undefined
             THEN [d EXCEPT !.runningJobs = @ \ {jobId},
                            !.history[jobId] = Trim(<<entry>> \o @)]
             ELSE [d EXCEPT !.runningJobs = @ \ {jobId}]
    ELSE d

\* the dashboard's state after the listener invocations dl[from + 1 ..],
\* of which it sees its own
RECURSIVE Observed(_, _, _, _, _, _)
Observed(d, reg, dl, em, runs, from) ==
    IF from >= Len(dl) THEN d
    ELSE LET e  == dl[from + 1]
             ev == em[e.event]
         IN  Observed(IF e.listener = Dashboard
                      THEN DashboardListener(d, reg, ev, runs[ev.runId].job.id)
                      ELSE d,
                      reg, dl, em, runs, from + 1)

\* the job that the worker's directory holds, as schedule() registers it
DiscoveredJob == [id |-> "a", v |-> 1]

\* The sixth and the seventh listener of wireEngineEvents call
\* options.onJobComplete: on job:success when registry.getById(event.jobId)
\* finds the job, on job:failure always.  The fourth, on job:timeout, calls
\* options.onJobError only.
CompleteStatus(l) ==
    IF \E g \in DOMAIN WiredIds : l = WiredIds[g][6] THEN "success"
    ELSE IF \E g \in DOMAIN WiredIds : l = WiredIds[g][7] THEN "failure"
    ELSE "none"

WorkerListener(calls, reg, l, ev, jobId) ==
    LET status == CompleteStatus(l)
    IN  IF status = "none" \/ (status = "success" /\ getById(reg, jobId) = Undefined)
        THEN calls
        ELSE Append(calls, [jobId |-> jobId, runId |-> ev.runId, status |-> status])

\* the calls of onJobComplete after the listener invocations dl[from + 1 ..]
RECURSIVE Completed(_, _, _, _, _, _)
Completed(calls, reg, dl, em, runs, from) ==
    IF from >= Len(dl) THEN calls
    ELSE LET e  == dl[from + 1]
             ev == em[e.event]
         IN  Completed(WorkerListener(calls, reg, e.listener, ev,
                                      runs[ev.runId].job.id),
                       reg, dl, em, runs, from + 1)

\* GET /api/jobs and GET /api/jobs/:id: the status of a registered job
JobStatus(d, id) ==
    IF id \in d.runningJobs THEN "running"
    ELSE IF d.history[id] # <<>>
    THEN (IF d.history[id][1].status = "success" THEN "success" ELSE "failed")
    ELSE "idle"

(***************************************************************************)
(* CronScheduler: the triggers.  scheduler.crons holds every Cron object   *)
(* the scheduler has made, in the order of their making; a Cron is armed   *)
(* (it fires at its next time), paused, or stopped for good.               *)
(* scheduler.scheduledJobs is the Map from job id to Cron, in insertion    *)
(* order, as a sequence of entries [id, cron].                             *)
(***************************************************************************)
MaxCrons == 3       \* the most Cron objects the scheduler makes

NewScheduler == [running |-> FALSE, scheduledJobs |-> <<>>, crons |-> <<>>]

\* cron.pause(), cron.resume() and cron.stop(); a stopped Cron stays stopped
pause(c) == IF c.state = "armed" THEN [c EXCEPT !.state = "paused"] ELSE c
resume(c) == IF c.state = "paused" THEN [c EXCEPT !.state = "armed"] ELSE c
cronStopNothing(c) == c
cronStop(c) == [c EXCEPT !.state = "stopped"]

\* the Cron objects that scheduledJobs holds
Held(s) == {s.scheduledJobs[i].cron : i \in 1..Len(s.scheduledJobs)}

OnHeld(s, f(_)) ==
    [c \in DOMAIN s.crons |-> IF c \in Held(s) THEN f(s.crons[c]) ELSE s.crons[c]]

\* remove(jobId): scheduled.cron.stop(); this.scheduledJobs.delete(jobId)
removeJob(s, id) ==
    LET at == {i \in 1..Len(s.scheduledJobs) : s.scheduledJobs[i].id = id}
    IN  IF at = {} THEN s
        ELSE [s EXCEPT
                !.crons = [c \in DOMAIN @ |->
                             IF \E i \in at : s.scheduledJobs[i].cron = c
                             THEN cronStop(@[c]) ELSE @[c]],
                !.scheduledJobs = SelectSeq(@, LAMBDA e : e.id # id)]

\* add(job): this.remove(job.id); new Cron(expr, {paused: !this.running}, fire);
\* this.scheduledJobs.set(job.id, {job, cron})
add(s, id) ==
    LET s1 == removeJob(s, id)
    IN  [s1 EXCEPT
           !.crons = Append(@, [id |-> id,
                                state |-> IF s1.running THEN "armed" ELSE "paused"]),
           !.scheduledJobs = Append(@, [id |-> id, cron |-> Len(s1.crons) + 1])]

\* start(): if (this.running) return; this.running = true; resume every cron
start(s) ==
    IF s.running THEN s
    ELSE [s EXCEPT !.running = TRUE, !.crons = OnHeld(s, resume)]

\* stop(): if (!this.running) return; this.running = false; pause every cron
stop(s) ==
    IF ~s.running THEN s
    ELSE [s EXCEPT !.running = FALSE, !.crons = OnHeld(s, pause)]

\* clear(): stop every cron; this.scheduledJobs.clear()
clearJobs(s) == [s EXCEPT !.crons = OnHeld(s, cronStop), !.scheduledJobs = <<>>]

\* no call of a pure function is followed, nothing is registered, no
\* unsubscribe function is held
NoCalc == [fn |-> "none"]
NoLibrary ==
    /\ handles = <<>>
    /\ registry = <<>>
    /\ calc = NoCalc
    /\ scheduler = NewScheduler

\* the state of a process that runs no worker
NoWorker ==
    /\ worker = NewWorker(FALSE)
    /\ wstart = <<>>
    /\ wstop = <<>>
    /\ wexec = <<>>
    /\ inFlight = {}
    /\ now = 0
    /\ NoLibrary
    /\ dash = NewDashboard
    /\ onJobComplete = <<>>

Alive == ~worker.exited

\* wireEngineEvents(): the seven listeners of one call of start
RECURSIVE wire(_, _, _)
wire(tbl, g, n) ==
    IF n > Len(WiredKeys) THEN tbl
    ELSE wire(on(tbl, WiredKeys[n], WiredIds[g][n]), g, n + 1)

\* for (const unsub of this.unsubscribers) unsub(): every listener a call of
\* wireEngineEvents added since the last stop is in the array
unwire(tbl) ==
    [k \in DOMAIN tbl |-> SelectSeq(tbl[k], LAMBDA l : l \notin Wired)]

\* const key = `${job.id}_${Date.now()}`
Key(job, r, t) == <<job.id, t>>

\* Map.set and Map.delete
MapSet(table, key, r) == {e \in table : e.key # key} \cup {[key |-> key, r |-> r]}
MapDelete(table, key) == {e \in table : e.key # key}

\* the worker side as one value: the fields, the stop calls, listener table
WS == [w |-> worker, stops |-> wstop, tbl |-> listeners]

\* the end of stop(): unsubscribe, running = false, shuttingDown = false;
\* a stop called by a signal handler is followed by process.exit(0)
StopFinish(ws, x) ==
    [w     |-> [ws.w EXCEPT !.running = FALSE, !.shuttingDown = FALSE,
                            !.healthServer = FALSE,
                            !.exited = @ \/ ws.stops[x].exit],
     stops |-> [ws.stops EXCEPT ![x].state = "returned"],
     tbl   |-> unwire(ws.tbl)]

\* stop() past its wait for the runs: await this.healthServer.close() if
\* there is a server, and then the end
StopAfterWait(ws, x) ==
    IF ws.w.healthServer
    THEN [ws EXCEPT !.stops[x].state = "closing"]
    ELSE StopFinish(ws, x)

\* a call of start() had returned by now
StartReturned == \E c \in DOMAIN wstart : wstart[c] = "returned"

\* stop() up to its first await, as call x: for (const cron of
\* this.crons.values()) cron.stop(); this.crons.clear(); then the wait.
\* started: whether a call of start() had returned when stop() was called;
\* exit: called by a signal
\* handler, as this.stop().then(() => process.exit(0)), so that the process
\* exits in the same turn when stop() returns without awaiting anything
StopBody(ws0, x, exit) ==
    IF ~ws0.w.running \/ ws0.w.shuttingDown
    THEN [ws0 EXCEPT !.stops[x] = [state |-> "returned", kind |-> "noop",
                                   pending |-> {}, exit |-> exit,
                                   started |-> StartReturned],
                     !.w.exited = @ \/ exit]
    ELSE LET ws == [ws0 EXCEPT !.w.shuttingDown = TRUE, !.w.crons = FALSE,
                               !.w.armed = IF ws0.w.crons THEN @ - 1 ELSE @,
                               !.stops[x] = [state |-> "waiting", kind |-> "full",
                                             pending |-> {e.r : e \in inFlight},
                                             exit |-> exit,
                                             started |-> StartReturned]]
         IN  IF inFlight # {} THEN ws ELSE StopAfterWait(ws, x)

\* The promise of engine.run for the call r of the worker settles: the
\* finally of executeJob deletes the entry under the call's key, and a stop
\* that waits for the promise goes on once it was the last one
RECURSIVE StopsAfter(_, _, _)
StopsAfter(ws, r, X) ==
    IF X = {} THEN ws
    ELSE LET x    == CHOOSE y \in X : TRUE
             pend == ws.stops[x].pending \ {r}
             ws1  == [ws EXCEPT !.stops[x].pending = pend]
             ws2  == IF ws.stops[x].state = "waiting" /\ r \in ws.stops[x].pending
                        /\ pend = {}
                     THEN StopAfterWait(ws1, x) ELSE ws1
         IN  StopsAfter(ws2, r, X \ {x})

WorkerSettle(r, pc) ==
    LET ws == StopsAfter(WS, r, DOMAIN wstop)
    IN  /\ wexec' = [wexec EXCEPT ![r].state = pc]
        /\ inFlight' = MapDelete(inFlight, wexec[r].key)
        /\ worker' = ws.w
        /\ wstop' = ws.stops
        /\ listeners' = ws.tbl
        /\ UNCHANGED wstart

\* a segment of the run of call r ends with the run's record and the bus as
\* in out
Commit(r, out) ==
    /\ run' = [run EXCEPT ![r] = out.s]
    /\ emitted' = out.b.emitted
    /\ delivered' = out.b.delivered
    /\ dash' = Observed(dash, registry, out.b.delivered, out.b.emitted, run',
                        Len(delivered))
    /\ onJobComplete' = Completed(onJobComplete, registry, out.b.delivered,
                                  out.b.emitted, run', Len(delivered))
    /\ IF out.s.pc \in {"returned", "rejected"}
       THEN IF r \in DOMAIN wexec
            THEN WorkerSettle(r, out.s.pc) /\ UNCHANGED schedVars
            ELSE Settle(r, out.s.pc, out.s.result)
                 /\ UNCHANGED <<listeners, workerVars>>
       ELSE UNCHANGED <<listeners, schedVars, workerVars>>

(***************************************************************************)
(* Actions.                                                                *)
(***************************************************************************)
Init ==
    /\ listeners = [k \in EventKeys |-> <<>>]
    /\ run = [r \in EngineCalls |-> IdleRun]
    /\ emitted = <<>>
    /\ delivered = <<>>
    /\ exec = [r \in EngineCalls |-> "none"]
    /\ execResult = [r \in EngineCalls |-> NoExecResult]
    /\ inFlightJobs = {}
    /\ shuttingDown = FALSE
    /\ sd = [x \in {1} |-> NoShutdown]
    /\ NoWorker

\* engine.on(key, listener)
On(key, l) ==
    /\ NumSubs(listeners) < MaxSubs
    /\ l \notin Range(listeners[key])
    /\ listeners' = on(listeners, key, l)
    /\ UNCHANGED <<run, emitted, delivered, schedVars, workerVars, now, libVars, dash, onJobComplete>>

\* CronScheduler.executeJob(job) up to its await; it calls engine.run(job),
\* which runs synchronously up to its own first await (RunStart).  The key of
\* the in-flight entry is the scheduler's own runId, one per call: the call r.
\* When engine.run has settled before it returns its promise, the entry is
\* set and deleted again before anything else runs.
ExecuteJob(r, job) ==
    /\ run[r].pc = "idle"
    /\ exec[r] = "none"
    /\ \A q \in DOMAIN exec : q < r => exec[q] # "none"
    /\ IF Skips(shuttingDown)
       THEN /\ exec' = [exec EXCEPT ![r] = "skipped"]
            /\ execResult' = [execResult EXCEPT ![r] = SkippedResult]
            /\ UNCHANGED <<run, emitted, delivered, inFlightJobs>>
       ELSE \E k \in ThrowChoices(listeners, "job:start") :
               LET out == RunStart(run[r], Bus, listeners, r, job, k)
               IN  /\ run' = [run EXCEPT ![r] = out.s]
                   /\ emitted' = out.b.emitted
                   /\ delivered' = out.b.delivered
                   /\ IF out.s.pc \in {"returned", "rejected"}
                      THEN /\ exec' = [exec EXCEPT ![r] = out.s.pc]
                           /\ execResult' = [execResult EXCEPT ![r] =
                                  IF out.s.pc = "returned"
                                  THEN Returns(r, out.s.result) ELSE @]
                           /\ UNCHANGED inFlightJobs
                      ELSE /\ exec' = [exec EXCEPT ![r] = "awaiting"]
                           /\ inFlightJobs' = inFlightJobs \cup {r}
                           /\ UNCHANGED execResult
    /\ dash' = Observed(dash, registry, delivered', emitted', run', Len(delivered))
    /\ onJobComplete' = Completed(onJobComplete, registry, delivered', emitted', run',
                                  Len(delivered))
    /\ UNCHANGED <<listeners, shuttingDown, sd, workerVars, now, libVars>>

\* CronScheduler.shutdown(timeoutMs) up to its await: it sets shuttingDown,
\* calls this.stop(), and with nothing in flight
\* it returns at once, otherwise it awaits the race of the entries' promises
\* against the timer
Shutdown(x) ==
    /\ sd[x].state = "none"
    /\ \A y \in DOMAIN sd : y < x => sd[y].state # "none"
    /\ shuttingDown' = TRUE
    /\ sd' = [sd EXCEPT ![x] =
                IF inFlightJobs = {}
                THEN [@ EXCEPT !.state = "returned", !.outcome = "empty"]
                ELSE [@ EXCEPT !.state = "waiting", !.entries = inFlightJobs,
                               !.pending = inFlightJobs]]
    /\ scheduler' = stop(scheduler)
    /\ UNCHANGED <<listeners, run, emitted, delivered, exec, execResult, inFlightJobs,
                   workerVars, now, handles, registry, calc, dash, onJobComplete>>

\* shutdown's timer fires before the last entry has settled: the race
\* resolves to "timeout", the entries still in the table are reported as
\* interrupted, and shuttingDown is cleared
ShutdownDeadline(x) ==
    /\ x \in DOMAIN sd
    /\ sd[x].state = "waiting"
    /\ "timeout" \in RaceOutcomes(sd[x])
    /\ sd' = [sd EXCEPT ![x] =
                [@ EXCEPT !.state = "returned", !.outcome = "timeout",
                          !.atReturn = Len(sd[x].completed),
                          !.interrupted = Interrupted(inFlightJobs, sd[x].completed)]]
    /\ shuttingDown' = ClearedFlag
    /\ UNCHANGED <<listeners, run, emitted, delivered, exec, execResult, inFlightJobs,
                   workerVars, now, libVars, dash, onJobComplete>>

\* the handler's promise resolves before the timer fires
HandlerResolves(r) ==
    /\ Alive
    /\ run[r].pc = "attempt"
    /\ run[r].pending = "handler"
    /\ LET s == [run[r] EXCEPT !.running = @ \ Awaited(run[r])]
       IN  \E k1 \in ThrowChoices(listeners, "job:success") :
              IF k1 = 0
              THEN Commit(r, Success(s, Bus, listeners, r, 0, 0))
              ELSE \E k2 \in ThrowChoices(listeners, CatchEvent(s, "Error")) :
                      Commit(r, Success(s, Bus, listeners, r, k1, k2))
    /\ UNCHANGED <<now, libVars>>

\* the handler throws or rejects before the timer fires: with an Error, or
\* with an instance of the exported TimeoutError class
HandlerThrows(r, err) ==
    /\ Alive
    /\ run[r].pc = "attempt"
    /\ run[r].pending = "handler"
    /\ \E k \in ThrowChoices(listeners, CatchEvent(run[r], err)) :
          Commit(r, Catch([run[r] EXCEPT !.running = @ \ Awaited(run[r])],
                          Bus, listeners, r, err, k))
    /\ UNCHANGED <<now, libVars>>

\* the attempt's timer fires first: the race rejects with a TimeoutError.
\* Nothing calls abortController.abort() and nothing awaits the handler's
\* promise any more: the invocation goes on for as long as it likes.
TimerFires(r) ==
    /\ Alive
    /\ run[r].pc = "attempt"
    /\ run[r].pending = "handler"
    /\ \E k \in ThrowChoices(listeners, CatchEvent(run[r], "TimeoutError")) :
          Commit(r, Catch([run[r] EXCEPT !.timedOut = @ \cup {run[r].attempt}],
                          Bus, listeners, r, "TimeoutError", k))
    /\ UNCHANGED <<now, libVars>>

\* the handler invocation of an attempt that timed out comes to its end
BackgroundHandlerSettles(r, a) ==
    /\ Alive
    /\ a \in run[r].running
    /\ ~(run[r].pc = "attempt" /\ run[r].pending = "handler" /\ run[r].attempt = a)
    /\ run' = [run EXCEPT ![r].running = @ \ {a}]
    /\ UNCHANGED <<listeners, emitted, delivered, schedVars, workerVars, now, libVars, dash, onJobComplete>>

\* parseDuration(job.config.timeout) threw in executeAttempt
TimeoutParseFails(r) ==
    /\ Alive
    /\ run[r].pc = "attempt"
    /\ run[r].pending = "parseError"
    /\ \E k \in ThrowChoices(listeners, CatchEvent(run[r], "Error")) :
          Commit(r, Catch(run[r], Bus, listeners, r, "Error", k))
    /\ UNCHANGED <<now, libVars>>

\* await sleep(delay) is over: attempt++; continue
SleepDone(r) ==
    /\ Alive
    /\ run[r].pc = "sleep"
    /\ Commit(r, [s |-> LoopHead([run[r] EXCEPT !.attempt = @ + 1]), b |-> Bus])
    /\ UNCHANGED <<now, libVars>>

\* the onSuccess / onFailure callback returns, throws or rejects
CallbackSettles(r, threw) ==
    /\ Alive
    /\ run[r].pc \in {"onSuccess", "onFailure"}
    /\ Commit(r, [s |-> [run[r] EXCEPT
                           !.pc = AfterCallback(run[r], threw),
                           !.callbackThrew = threw,
                           !.result = IF AfterCallback(run[r], threw) = "returned"
                                      THEN @ ELSE NoResult],
                  b |-> Bus])
    /\ UNCHANGED <<now, libVars>>

\* CronletWorker.start(), call c, up to the first await of discoverJobs(...),
\* which begins with registry.clear()
WorkerStart(c) ==
    /\ Alive
    /\ wstart[c] = "none"
    /\ \A b \in DOMAIN wstart : b < c => wstart[b] # "none"
    /\ wstart' = [wstart EXCEPT ![c] = IF worker.running THEN "returned"
                                       ELSE "discovering"]
    /\ registry' = IF worker.running THEN registry ELSE <<>>
    /\ UNCHANGED <<listeners, run, emitted, delivered, schedVars, worker, wstop,
                   wexec, inFlight, now, handles, calc, scheduler, dash,
                   onJobComplete>>

\* start() after discoverJobs, whose import of the job's file has run
\* schedule(), which registers the job (a module that was evaluated before
\* is not evaluated again, and a second register of the id throws inside
\* the import: either way the registry holds the job once):
\* wireEngineEvents, a new Cron for the job
\* (this.crons.set(job.id, cron) drops the Cron the Map held, unstopped),
\* running = true, and then either await startHealthServer(...) or, with the
\* health check disabled, registerSignalHandlers and the end
WorkerDiscovered(c) ==
    /\ Alive
    /\ wstart[c] = "discovering"
    /\ listeners' = wire(listeners, c, 1)
    /\ IF worker.healthCheck
       THEN /\ worker' = [worker EXCEPT !.running = TRUE, !.crons = TRUE,
                                        !.armed = @ + 1]
            /\ wstart' = [wstart EXCEPT ![c] = "listening"]
       ELSE /\ worker' = [worker EXCEPT !.running = TRUE, !.crons = TRUE,
                                        !.armed = @ + 1, !.handlers = @ + 1]
            /\ wstart' = [wstart EXCEPT ![c] = "returned"]
    /\ registry' = IF has(registry, DiscoveredJob.id) THEN registry
                    ELSE Append(registry, DiscoveredJob)
    /\ UNCHANGED <<run, emitted, delivered, schedVars, wstop, wexec, inFlight, now,
                   handles, calc, scheduler, dash, onJobComplete>>

\* start() after startHealthServer settled (ok: the server listens; else the
\* error is logged): registerSignalHandlers and the end
WorkerListening(c, ok) ==
    /\ Alive
    /\ wstart[c] = "listening"
    /\ worker' = [worker EXCEPT !.healthServer = IF ok THEN TRUE ELSE @,
                                !.handlers = @ + 1]
    /\ wstart' = [wstart EXCEPT ![c] = "returned"]
    /\ UNCHANGED <<listeners, run, emitted, delivered, schedVars, wstop, wexec,
                   inFlight, now, libVars, dash, onJobComplete>>

\* CronletWorker.executeJob(job), from a Cron trigger or from trigger(jobId),
\* up to its await
WorkerExecuteJob(r, job) ==
    /\ Alive
    /\ \E c \in DOMAIN wstart : wstart[c] \in {"listening", "returned"}
    /\ run[r].pc = "idle"
    /\ wexec[r].state = "none"
    /\ \A q \in DOMAIN wexec : q < r => wexec[q].state # "none"
    /\ IF worker.shuttingDown
       THEN /\ wexec' = [wexec EXCEPT ![r].state = "skipped"]
            /\ UNCHANGED <<run, emitted, delivered, inFlight>>
       ELSE \E k \in ThrowChoices(listeners, "job:start") :
               LET out == RunStart(run[r], Bus, listeners, r, job, k)
                   key == Key(job, r, now)
               IN  /\ run' = [run EXCEPT ![r] = out.s]
                   /\ emitted' = out.b.emitted
                   /\ delivered' = out.b.delivered
                   /\ IF out.s.pc \in {"returned", "rejected"}
                      THEN /\ wexec' = [wexec EXCEPT ![r] = [state |-> out.s.pc, key |-> key]]
                           /\ inFlight' = MapDelete(inFlight, key)
                      ELSE /\ wexec' = [wexec EXCEPT ![r] = [state |-> "awaiting", key |-> key]]
                           /\ inFlight' = MapSet(inFlight, key, r)
    /\ dash' = Observed(dash, registry, delivered', emitted', run', Len(delivered))
    /\ onJobComplete' = Completed(onJobComplete, registry, delivered', emitted', run',
                                  Len(delivered))
    /\ UNCHANGED <<listeners, schedVars, worker, wstart, wstop, now, libVars>>

\* a millisecond goes by; the clock is read by executeJob only, and is
\* followed for as long as a call of it is to come
Tick ==
    /\ Alive
    /\ now < MaxNow
    /\ \E r \in DOMAIN wexec : wexec[r].state = "none"
    /\ now' = now + 1
    /\ UNCHANGED <<listeners, run, emitted, delivered, schedVars, workerVars,
                   libVars, dash, onJobComplete>>

WorkerCommit(ws) ==
    /\ worker' = ws.w
    /\ wstop' = ws.stops
    /\ listeners' = ws.tbl
    /\ UNCHANGED <<run, emitted, delivered, schedVars, wstart, wexec, inFlight, now, libVars, dash, onJobComplete>>

\* worker.stop() called by the program, as call x
WorkerStop(x) ==
    /\ Alive
    /\ wstop[x].state = "none"
    /\ \A y \in DOMAIN wstop : y < x => wstop[y].state # "none"
    /\ WorkerCommit(StopBody(WS, x, FALSE))

\* SIGTERM or SIGINT arrives: every registered handler runs handle(signal),
\* the first as the stop call x; from the second on stop() returns at once
\* (the worker is shutting down or has stopped) and its then() exits
Signal(x) ==
    /\ Alive
    /\ worker.handlers >= 1
    /\ wstop[x].state = "none"
    /\ \A y \in DOMAIN wstop : y < x => wstop[y].state # "none"
    /\ LET ws == StopBody(WS, x, TRUE)
       IN  WorkerCommit([ws EXCEPT !.w.exited = @ \/ worker.handlers >= 2])

\* the deadline of stop() (shutdownTimeout) elapses before the runs settled
StopDeadline(x) ==
    /\ Alive
    /\ x \in DOMAIN wstop
    /\ wstop[x].state = "waiting"
    /\ WorkerCommit(StopAfterWait(WS, x))

\* the health server has closed (or close() failed)
StopClosed(x) ==
    /\ Alive
    /\ x \in DOMAIN wstop
    /\ wstop[x].state = "closing"
    /\ WorkerCommit(StopFinish(WS, x))

AllIdle == \A r \in EngineCalls : run[r].pc = "idle"

\* Spec follows the calls of EngineCalls, with the listeners subscribed
\* before the first of them starts.
Next ==
    \/ \E key \in EventKeys, l \in ListenerIds : AllIdle /\ On(key, l)
    \/ \E r \in EngineCalls, job \in JobInputs : ExecuteJob(r, job)
    \/ \E r \in EngineCalls : HandlerResolves(r)
    \/ \E r \in EngineCalls, err \in {"Error", "TimeoutError"} : HandlerThrows(r, err)
    \/ \E r \in EngineCalls : TimerFires(r)
    \/ \E r \in EngineCalls : TimeoutParseFails(r)
    \/ \E r \in EngineCalls : SleepDone(r)
    \/ \E r \in EngineCalls, threw \in BOOLEAN : CallbackSettles(r, threw)

Spec == Init /\ [][Next]_vars

(***************************************************************************)
(* One run with the handler invocations that outlive their attempt:        *)
(* SpecAttempts follows one call, with no listener subscribed, and the     *)
(* invocation of a timed-out attempt ends at any later time, or never.     *)
(***************************************************************************)
NextAttempts ==
    \/ \E r \in EngineCalls, job \in JobInputs : ExecuteJob(r, job)
    \/ \E r \in EngineCalls : HandlerResolves(r)
    \/ \E r \in EngineCalls, err \in {"Error", "TimeoutError"} : HandlerThrows(r, err)
    \/ \E r \in EngineCalls : TimerFires(r)
    \/ \E r \in EngineCalls, a \in 1..MaxAttempts : BackgroundHandlerSettles(r, a)
    \/ \E r \in EngineCalls : TimeoutParseFails(r)
    \/ \E r \in EngineCalls : SleepDone(r)
    \/ \E r \in EngineCalls, threw \in BOOLEAN : CallbackSettles(r, threw)

SpecAttempts == Init /\ [][NextAttempts]_vars

(***************************************************************************)
(* The scheduler under concurrent fires and shutdown calls: SpecSched      *)
(* follows MaxCalls calls of executeJob and two calls of shutdown, in any   *)
(* interleaving, with no listener subscribed; a handler resolves, or its   *)
(* attempt times out, or it never settles.                                 *)
(***************************************************************************)
MaxCalls == 2
SchedCalls == 1..MaxCalls
ShutdownCalls == {1, 2}

\* two registered jobs: a without retry, b with two attempts
SchedJobs ==
    { [NoJob EXCEPT !.id = "a"],
      [NoJob EXCEPT !.id = "b", !.hasRetry = TRUE, !.attempts = 2] }

InitSched ==
    /\ listeners = [k \in EventKeys |-> <<>>]
    /\ run = [r \in SchedCalls |-> IdleRun]
    /\ emitted = <<>>
    /\ delivered = <<>>
    /\ exec = [r \in SchedCalls |-> "none"]
    /\ execResult = [r \in SchedCalls |-> NoExecResult]
    /\ inFlightJobs = {}
    /\ shuttingDown = FALSE
    /\ sd = [x \in ShutdownCalls |-> NoShutdown]
    /\ NoWorker

NextSched ==
    \/ \E r \in SchedCalls, job \in SchedJobs : ExecuteJob(r, job)
    \/ \E x \in ShutdownCalls : Shutdown(x)
    \/ \E x \in ShutdownCalls : ShutdownDeadline(x)
    \/ \E r \in SchedCalls : HandlerResolves(r)
    \/ \E r \in SchedCalls : TimerFires(r)
    \/ \E r \in SchedCalls : SleepDone(r)

SpecSched == InitSched /\ [][NextSched]_vars

\* the timer of a waiting shutdown fires once its delay is over, whatever
\* the runs do
SpecSchedFair ==
    SpecSched /\ \A x \in ShutdownCalls : WF_vars(ShutdownDeadline(x))

(***************************************************************************)
(* The worker: SpecWorker follows two calls of start, two calls of stop    *)
(* (by the program or by a signal) and MaxCalls fires of one job, in any   *)
(* interleaving, with the health check enabled or not.                     *)
(***************************************************************************)
StartCalls == {1, 2}
StopCalls == {1, 2}
WorkerCalls == 1..MaxCalls
WorkerJobs == { [NoJob EXCEPT !.id = "a"] }

\* the worker after construction, to be started by the calls in starts
InitWorkerWith(starts) ==
    /\ listeners = [k \in EventKeys |-> <<>>]
    /\ run = [r \in WorkerCalls |-> IdleRun]
    /\ emitted = <<>>
    /\ delivered = <<>>
    /\ exec = <<>>
    /\ execResult = <<>>
    /\ inFlightJobs = {}
    /\ shuttingDown = FALSE
    /\ sd = <<>>
    /\ \E hc \in BOOLEAN : worker = NewWorker(hc)
    /\ wstart = [c \in starts |-> "none"]
    /\ wstop = [x \in StopCalls |-> NoStop]
    /\ wexec = [r \in WorkerCalls |-> NoWorkerCall]
    /\ inFlight = {}
    /\ now = 0
    /\ NoLibrary
    /\ dash = NewDashboard
    /\ onJobComplete = <<>>

InitWorker == InitWorkerWith(StartCalls)

NextWorker ==
    \/ \E c \in StartCalls : WorkerStart(c)
    \/ \E c \in StartCalls : WorkerDiscovered(c)
    \/ \E c \in StartCalls, ok \in BOOLEAN : WorkerListening(c, ok)
    \/ \E r \in WorkerCalls, job \in WorkerJobs : WorkerExecuteJob(r, job)
    \/ Tick
    \/ \E x \in StopCalls : WorkerStop(x)
    \/ \E x \in StopCalls : Signal(x)
    \/ \E x \in StopCalls : StopDeadline(x)
    \/ \E x \in StopCalls : StopClosed(x)
    \/ \E r \in WorkerCalls : HandlerResolves(r)
    \/ \E r \in WorkerCalls : TimerFires(r)

SpecWorker == InitWorker /\ [][NextWorker]_vars

(***************************************************************************)
(* Graceful shutdown of either component: a process runs the scheduler or  *)
(* the worker (started once), with fires of one job without retry.  The    *)
(* timers of shutdown() and stop() fire once their delay is over, and the  *)
(* health server closes once asked to; the runs are under no such          *)
(* obligation: a handler may never settle.                                 *)
(***************************************************************************)
InitStop == InitSched \/ InitWorkerWith({1})

NextStop ==
    \/ \E r \in DOMAIN exec, job \in WorkerJobs : ExecuteJob(r, job)
    \/ \E x \in DOMAIN sd : Shutdown(x)
    \/ \E x \in DOMAIN sd : ShutdownDeadline(x)
    \/ \E c \in DOMAIN wstart : WorkerStart(c)
    \/ \E c \in DOMAIN wstart : WorkerDiscovered(c)
    \/ \E c \in DOMAIN wstart, ok \in BOOLEAN : WorkerListening(c, ok)
    \/ \E r \in DOMAIN wexec, job \in WorkerJobs : WorkerExecuteJob(r, job)
    \/ Tick
    \/ \E x \in DOMAIN wstop : WorkerStop(x)
    \/ \E x \in DOMAIN wstop : Signal(x)
    \/ \E x \in DOMAIN wstop : StopDeadline(x)
    \/ \E x \in DOMAIN wstop : StopClosed(x)
    \/ \E r \in DOMAIN run : HandlerResolves(r)
    \/ \E r \in DOMAIN run : TimerFires(r)

SpecStopFair ==
    /\ InitStop
    /\ [][NextStop]_vars
    /\ \A x \in ShutdownCalls : WF_vars(ShutdownDeadline(x))
    /\ \A x \in StopCalls : WF_vars(StopDeadline(x)) /\ WF_vars(StopClosed(x))

(***************************************************************************)
(* The event bus: SpecBus follows one run while listeners are subscribed,  *)
(* unsubscribed through the functions that on() returned, and removed all  *)
(* at once, between the segments of the run.                               *)
(***************************************************************************)
MaxHandles == 3     \* the calls of on() whose unsubscribe function is kept
MaxOffCalls == 2    \* the calls of one unsubscribe function
BusKeys == {"job:start", "*"}

RECURSIVE Without(_, _)
Without(s, l) ==
    IF s = <<>> THEN <<>>
    ELSE IF Head(s) = l THEN Without(Tail(s), l) ELSE <<Head(s)>> \o Without(Tail(s), l)

\* the function on() returns: this.listeners.get(event)?.delete(listener)
off(tbl, key, l) == [tbl EXCEPT ![key] = Without(@, l)]

\* removeAllListeners(): this.listeners.clear()
clear(tbl) == [k \in DOMAIN tbl |-> <<>>]

\* const unsubscribe = engine.on(key, l)
Subscribe(key, l) ==
    /\ Len(handles) < MaxHandles
    /\ listeners' = on(listeners, key, l)
    /\ handles' = Append(handles, [key |-> key, l |-> l, calls |-> 0])
    /\ UNCHANGED <<run, emitted, delivered, schedVars, workerVars, now, registry,
                   calc, dash, onJobComplete, scheduler>>

\* unsubscribe(), for the function that the h-th call of on() returned
Unsubscribe(h) ==
    /\ h \in DOMAIN handles
    /\ handles[h].calls < MaxOffCalls
    /\ listeners' = off(listeners, handles[h].key, handles[h].l)
    /\ handles' = [handles EXCEPT ![h].calls = @ + 1]
    /\ UNCHANGED <<run, emitted, delivered, schedVars, workerVars, now, registry,
                   calc, dash, onJobComplete, scheduler>>

\* engine.removeAllListeners()
RemoveAllListeners ==
    /\ listeners' = clear(listeners)
    /\ UNCHANGED <<run, emitted, delivered, schedVars, workerVars, now, libVars, dash, onJobComplete>>

NextBus ==
    \/ \E key \in BusKeys, l \in ListenerIds : Subscribe(key, l)
    \/ \E h \in 1..MaxHandles : Unsubscribe(h)
    \/ RemoveAllListeners
    \/ \E r \in EngineCalls, job \in WorkerJobs : ExecuteJob(r, job)
    \/ \E r \in EngineCalls : HandlerResolves(r)

SpecBus == Init /\ [][NextBus]_vars

(***************************************************************************)
(* JobRegistry: SpecRegistry follows the calls of register, remove and     *)
(* clear on one registry, with job definitions that share ids (v tells     *)
(* two definitions of one id apart).                                       *)
(***************************************************************************)
MaxVersion == 2     \* the definitions there are of one id
RegistryJobs == {[id |-> i, v |-> n] : i \in JobIds \cup {"c"}, n \in 1..MaxVersion}

\* this.jobs.set(job.id, job): a Map keeps the place of a key it already holds
MapSetJob(reg, job) ==
    IF has(reg, job.id)
    THEN [i \in 1..Len(reg) |-> IF reg[i].id = job.id THEN job ELSE reg[i]]
    ELSE Append(reg, job)

registerOverwrites(reg, job) == [reg |-> MapSetJob(reg, job), out |-> "ok"]
\* register(job): throws when the id is taken, else sets it
register(reg, job) ==
    IF has(reg, job.id)
    THEN [reg |-> reg, out |-> "already registered"]
    ELSE [reg |-> MapSetJob(reg, job), out |-> "ok"]

\* remove(id): this.jobs.delete(id)
remove(reg, id) ==
    [reg |-> SelectSeq(reg, LAMBDA j : j.id # id),
     out |-> IF has(reg, id) THEN "true" ELSE "false"]

\* get size(): this.jobs.size
size(reg) == Len(reg)

Register(job) ==
    /\ registry' = register(registry, job).reg
    /\ calc' = [fn |-> "register", arg |-> job, out |-> register(registry, job).out]
    /\ UNCHANGED <<listeners, run, emitted, delivered, schedVars, workerVars, now,
                   handles, dash, onJobComplete, scheduler>>

Remove(id) ==
    /\ registry' = remove(registry, id).reg
    /\ calc' = [fn |-> "remove", arg |-> id, out |-> remove(registry, id).out]
    /\ UNCHANGED <<listeners, run, emitted, delivered, schedVars, workerVars, now,
                   handles, dash, onJobComplete, scheduler>>

\* clear(): this.jobs.clear()
Clear ==
    /\ registry' = <<>>
    /\ calc' = [fn |-> "clear"]
    /\ UNCHANGED <<listeners, run, emitted, delivered, schedVars, workerVars, now,
                   handles, dash, onJobComplete, scheduler>>

NextRegistry ==
    \/ \E job \in RegistryJobs : Register(job)
    \/ \E id \in JobIds \cup {"c"} : Remove(id)
    \/ Clear

SpecRegistry == Init /\ [][NextRegistry]_vars

(***************************************************************************)
(* The dashboard: SpecDash follows MaxCalls fires of the registered jobs a *)
(* and b through CronScheduler.executeJob with the dashboard's listener    *)
(* subscribed, in a server whose history of job a is empty, one short of   *)
(* full, or full; job b may have been removed from the registry since it   *)
(* was scheduled.                                                          *)
(***************************************************************************)
\* the entries of runs that ended before the ones followed, newest first
OldHistory(n) ==
    [i \in 1..n |-> [runId |-> 0 - i,
                     status |-> IF i % 2 = 0 THEN "failure" ELSE "success",
                     attempt |-> 1]]

HistoryLengths == {0, MAX_HISTORY_PER_JOB - 1, MAX_HISTORY_PER_JOB}

InitDash ==
    /\ listeners = [k \in EventKeys |-> IF k = "*" THEN <<Dashboard>> ELSE <<>>]
    /\ run = [r \in SchedCalls |-> IdleRun]
    /\ emitted = <<>>
    /\ delivered = <<>>
    /\ exec = [r \in SchedCalls |-> "none"]
    /\ execResult = [r \in SchedCalls |-> NoExecResult]
    /\ inFlightJobs = {}
    /\ shuttingDown = FALSE
    /\ sd = <<>>
    /\ worker = NewWorker(FALSE)
    /\ wstart = <<>>
    /\ wstop = <<>>
    /\ wexec = <<>>
    /\ inFlight = {}
    /\ now = 0
    /\ handles = <<>>
    /\ calc = NoCalc
    /\ scheduler = NewScheduler
    /\ registry \in {<<[id |-> "a", v |-> 1], [id |-> "b", v |-> 1]>>,
                     <<[id |-> "a", v |-> 1]>>}
    /\ \E n \in HistoryLengths :
          dash = [NewDashboard EXCEPT !.history["a"] = OldHistory(n)]
    /\ onJobComplete = <<>>

NextDash ==
    \/ \E r \in SchedCalls, job \in SchedJobs : ExecuteJob(r, job)
    \/ \E r \in SchedCalls : HandlerResolves(r)
    \/ \E r \in SchedCalls : HandlerThrows(r, "Error")
    \/ \E r \in SchedCalls : TimerFires(r)
    \/ \E r \in SchedCalls : SleepDone(r)

SpecDash == InitDash /\ [][NextDash]_vars

(***************************************************************************)
(* Strings are sequences of one-character strings.                         *)
(***************************************************************************)
DigitChars == <<"0", "1", "2", "3", "4", "5", "6", "7", "8", "9">>
IsDigit(c) == \E i \in 1..10 : DigitChars[i] = c
DigitVal(c) == (CHOOSE i \in 1..10 : DigitChars[i] = c) - 1

\* parseInt(digits, 10), for a string of digits
RECURSIVE ParseInt(_)
ParseInt(s) ==
    IF s = <<>> THEN 0 ELSE 10 * ParseInt(SubSeq(s, 1, Len(s) - 1)) + DigitVal(s[Len(s)])

\* the length of the longest prefix of s that \d+ (or \d*) matches
RECURSIVE LeadingDigits(_)
LeadingDigits(s) ==
    IF s # <<>> /\ IsDigit(Head(s)) THEN 1 + LeadingDigits(Tail(s)) ELSE 0

\* all strings over the characters C of length 1..n, and the empty string
RECURSIVE Strings(_, _)
Strings(C, n) ==
    IF n = 0 THEN {<<>>}
    ELSE LET shorter == Strings(C, n - 1)
         IN  shorter \cup {Append(s, c) : s \in shorter, c \in C}

RECURSIVE Pow2(_)
Pow2(n) == IF n <= 0 THEN 1 ELSE 2 * Pow2(n - 1)

(***************************************************************************)
(* Retry delay: SpecDelay follows one call of calculateRetryDelay, for     *)
(* every attempt up to MaxAttempts and every retry configuration whose     *)
(* initialDelay is a string of at most MaxDurationLen characters.          *)
(***************************************************************************)
MaxDurationLen == 3
DurationChars == {"0", "1", "5", "m", "s", "h", "d"}

\* A JavaScript number holds these milliseconds exactly (they stay far below
\* 2^53); here a number of milliseconds is hi * 10^6 + lo with lo < 10^6,
\* which keeps every product within the integers of the model checker.
Million == 1000 * 1000
Ms(hi, lo) == [hi |-> hi + lo \div Million, lo |-> lo % Million]
Times(ms, k) == Ms(ms.hi * k, ms.lo * k)

Threw == [ok |-> FALSE, ms |-> Ms(0, 0)]

\* the milliseconds of one unit, as the switch of parseDuration has them
UnitMs(unit) ==
    IF unit = <<"m", "s">> THEN Ms(0, 1)
    ELSE IF unit = <<"s">> THEN Ms(0, 1000)
    ELSE IF unit = <<"m">> THEN Ms(0, 60 * 1000)
    ELSE IF unit = <<"h">> THEN Times(Ms(0, 60 * 1000), 60)
    ELSE Times(Times(Ms(0, 60 * 1000), 60), 24)

\* parseDuration(duration): /^(\d+)(ms|s|m|h|d)$/, or it throws
parseDuration(duration) ==
    LET n    == LeadingDigits(duration)
        unit == SubSeq(duration, n + 1, Len(duration))
    IN  IF n >= 1 /\ unit \in {<<"m", "s">>, <<"s">>, <<"m">>, <<"h">>, <<"d">>}
        THEN [ok |-> TRUE, ms |-> Times(UnitMs(unit), ParseInt(SubSeq(duration, 1, n)))]
        ELSE Threw

\* DEFAULT_RETRY_CONFIG
DEFAULT_RETRY_CONFIG == [attempts |-> DEFAULT_RETRY_ATTEMPTS, backoff |-> "linear",
                         initialDelay |-> <<"1", "s">>]

\* what is absent (undefined) is the empty string here: both are falsy
Absent == <<>>
NoBackoff == ""

calculateRetryDelayFlat(attempt, config) ==
    IF config.initialDelay # <<>> THEN parseDuration(config.initialDelay)
    ELSE parseDuration(DEFAULT_RETRY_CONFIG.initialDelay)
\* calculateRetryDelay(attempt, config)
calculateRetryDelay(attempt, config) ==
    LET initialDelay == IF config.initialDelay # <<>>
                        THEN parseDuration(config.initialDelay)
                        ELSE parseDuration(DEFAULT_RETRY_CONFIG.initialDelay)
        backoff == IF config.backoff # "" THEN config.backoff
                   ELSE DEFAULT_RETRY_CONFIG.backoff
    IN  IF ~initialDelay.ok THEN Threw
        ELSE IF backoff = "linear"
        THEN [ok |-> TRUE, ms |-> Times(initialDelay.ms, attempt)]
        ELSE IF backoff = "exponential"
        THEN [ok |-> TRUE, ms |-> Times(initialDelay.ms, Pow2(attempt - 1))]
        ELSE initialDelay

\* engine.run: const delay = calculateRetryDelay(attempt, job.config.retry)
RetryWait(attempt, retry) == calculateRetryDelay(attempt, retry)

RetryConfigs ==
    [initialDelay : Strings(DurationChars, MaxDurationLen),
     backoff : {NoBackoff, "linear", "exponential", "fixed"}]

\* every variable but calc
allButCalc == <<listeners, run, emitted, delivered, schedVars, workerVars, now,
                handles, registry, dash, onJobComplete, scheduler>>

\* the program with nothing scheduled, subscribed or registered
Idle ==
    /\ listeners = [k \in EventKeys |-> <<>>]
    /\ run = <<>>
    /\ emitted = <<>>
    /\ delivered = <<>>
    /\ exec = <<>>
    /\ execResult = <<>>
    /\ inFlightJobs = {}
    /\ shuttingDown = FALSE
    /\ sd = <<>>
    /\ worker = NewWorker(FALSE)
    /\ wstart = <<>>
    /\ wstop = <<>>
    /\ wexec = <<>>
    /\ inFlight = {}
    /\ now = 0
    /\ handles = <<>>
    /\ registry = <<>>
    /\ dash = NewDashboard
    /\ onJobComplete = <<>>
    /\ scheduler = NewScheduler

InitDelay ==
    /\ Idle
    /\ \E k \in 1..MaxAttempts, config \in RetryConfigs :
          calc = [fn |-> "calculateRetryDelay", attempt |-> k, config |-> config,
                  done |-> FALSE, out |-> Threw]

\* the engine computes the wait after failed attempt calc.attempt
CalculateRetryDelay ==
    /\ calc.fn = "calculateRetryDelay"
    /\ ~calc.done
    /\ calc' = [calc EXCEPT !.done = TRUE, !.out = RetryWait(calc.attempt, calc.config)]
    /\ UNCHANGED allButCalc

SpecDelay == InitDelay /\ [][CalculateRetryDelay]_vars

(***************************************************************************)
(* Discovery: SpecDiscover follows MaxRounds calls of discoverJobs over a  *)
(* jobs directory that holds any of three files, each file's default       *)
(* export being schedule(timing, config, handler) with or without          *)
(* config.name.  A path or an id is the sequence of its segments,          *)
(* separators included.                                                    *)
(***************************************************************************)
MaxRounds == 3      \* the calls of discoverJobs
\* relative(baseDir, filePath) of the files there may be, in the order of
\* readdirSync; the third is the second on a file system that separates
\* with backslashes
FilePaths ==
    << <<"billing", "/", "sync-stripe", ".ts">>,
       <<"billing", "\\", "sync-stripe", ".ts">>,
       <<"hello", ".ts">> >>
NoName == <<>>
ConfigNames == {NoName, <<"hello">>, <<"report">>}

\* filePathToJobId: relativePath.slice(0, -ext.length).replace(/\\/g, "/")
filePathToJobId(relativePath) ==
    LET stem == SubSeq(relativePath, 1, Len(relativePath) - 1)
    IN  [i \in 1..Len(stem) |-> IF stem[i] = "\\" THEN "/" ELSE stem[i]]

\* generateAnonymousId, with the counter already advanced
generateAnonymousId(counter) == <<"anonymous-job-", ToString(counter)>>

\* createJobDefinition(registration): id ?? registration.config.name ??
\* generateAnonymousId(), and schedule() passes no id
jobIdOfDefinition(name, path, counter) ==
    IF name # NoName THEN name ELSE generateAnonymousId(counter + 1)

\* for (const filePath of files): filePathToJobId, whose result importJobFile
\* does not use, then the import, which runs the module's schedule(): the
\* definition gets its id, register() throws on an id that is taken, and
\* importJobFile turns the error into null
RECURSIVE ImportAll(_, _, _)
ImportAll(fs, i, acc) ==
    IF i > Len(FilePaths) THEN acc
    ELSE IF ~fs[i].exists THEN ImportAll(fs, i + 1, acc)
    ELSE LET id   == jobIdOfDefinition(fs[i].name, FilePaths[i], acc.counter)
             n    == IF fs[i].name # NoName THEN acc.counter ELSE acc.counter + 1
             r    == register(acc.reg, [id |-> id, v |-> 1])
         IN  ImportAll(fs, i + 1,
                [counter |-> n, reg |-> r.reg,
                 jobs |-> IF r.out = "ok"
                          THEN Append(acc.jobs, [id |-> id, filePath |-> FilePaths[i]])
                          ELSE acc.jobs])

FileSystems == [1..Len(FilePaths) -> [exists : BOOLEAN, name : ConfigNames]]

InitDiscover ==
    /\ Idle
    /\ \E fs \in FileSystems :
          /\ \A i \in 1..Len(FilePaths) : ~fs[i].exists => fs[i].name = NoName
          /\ ~(fs[1].exists /\ fs[2].exists)
          /\ calc = [fn |-> "discoverJobs", fs |-> fs, rounds |-> 0, counter |-> 0,
                     jobs |-> <<>>]

\* discoverJobs(): registry.clear(), then the files one after the other.  An
\* import whose URL (the path and Date.now()) was imported before yields the
\* module as it was evaluated then: schedule() does not run again.
DiscoverJobs(cached) ==
    /\ calc.fn = "discoverJobs"
    /\ calc.rounds < MaxRounds
    /\ cached => calc.rounds > 0
    /\ LET out == ImportAll(calc.fs, 1, [counter |-> calc.counter, reg |-> <<>>,
                                          jobs |-> <<>>])
       IN  IF cached
           THEN /\ registry' = <<>>
                /\ calc' = [calc EXCEPT !.rounds = @ + 1]
           ELSE /\ registry' = out.reg
                /\ calc' = [calc EXCEPT !.rounds = @ + 1, !.counter = out.counter,
                                        !.jobs = out.jobs]
    /\ UNCHANGED <<listeners, run, emitted, delivered, schedVars, workerVars, now,
                   handles, dash, onJobComplete, scheduler>>

NextDiscover == \E cached \in BOOLEAN : DiscoverJobs(cached)

SpecDiscover == InitDiscover /\ [][NextDiscover]_vars

(***************************************************************************)
(* Schedule builders.  SpecWeekly follows one call of weekly(days, time)   *)
(* for every array of at most MaxDays day tokens and a handful of time     *)
(* strings.  The human-readable text is the sequence of its pieces.        *)
(***************************************************************************)
MaxDays == 3
validDays == <<"mon", "tue", "wed", "thu", "fri", "sat", "sun">>
DayTokens == Range(validDays) \cup {"xyz"}

\* dayOfWeekToCron and dayOfWeekToName
dayOfWeekToCron(d) ==
    CASE d = "sun" -> 0 [] d = "mon" -> 1 [] d = "tue" -> 2 [] d = "wed" -> 3
      [] d = "thu" -> 4 [] d = "fri" -> 5 [] d = "sat" -> 6
dayOfWeekToName(d) ==
    CASE d = "sun" -> "Sunday" [] d = "mon" -> "Monday" [] d = "tue" -> "Tuesday"
      [] d = "wed" -> "Wednesday" [] d = "thu" -> "Thursday" [] d = "fri" -> "Friday"
      [] d = "sat" -> "Saturday"

TimeStrings ==
    { <<"0", "9", ":", "0", "0">>, <<"1", "7", ":", "3", "0">>, <<"0", ":", "0", "5">>,
      <<"2", "4", ":", "0", "0">>, <<"9", ":", "5">> }

NoTime == [ok |-> FALSE, hour |-> 0, minute |-> 0]
\* parseTime(time): /^(\d{1,2}):(\d{2})$/ and the ranges, or null
parseTime(time) ==
    LET n    == LeadingDigits(time)
        rest == SubSeq(time, n + 1, Len(time))
        hour == ParseInt(SubSeq(time, 1, n))
        minute == ParseInt(SubSeq(rest, 2, 3))
    IN  IF /\ n \in {1, 2}
           /\ Len(rest) = 3
           /\ rest[1] = ":"
           /\ IsDigit(rest[2]) /\ IsDigit(rest[3])
           /\ hour <= 23
           /\ minute <= 59
        THEN [ok |-> TRUE, hour |-> hour, minute |-> minute]
        ELSE NoTime

\* formatTime12Hour(hour, minute)
formatTime12Hour(hour, minute) ==
    LET period == IF hour >= 12 THEN "PM" ELSE "AM"
        hour12 == IF hour = 0 THEN 12 ELSE IF hour > 12 THEN hour - 12 ELSE hour
        minuteStr == IF minute < 10 THEN <<"0", ToString(minute)>> ELSE <<ToString(minute)>>
    IN  <<ToString(hour12), ":">> \o minuteStr \o <<" ", period>>

\* Array.prototype.sort((a, b) => a - b): ascending, every element kept
RECURSIVE Insert(_, _)
Insert(s, x) ==
    IF s = <<>> THEN <<x>>
    ELSE IF x < Head(s) THEN <<x>> \o s ELSE <<Head(s)>> \o Insert(Tail(s), x)
RECURSIVE SortAscending(_)
SortAscending(s) ==
    IF s = <<>> THEN <<>> ELSE Insert(SortAscending(SubSeq(s, 1, Len(s) - 1)), s[Len(s)])

\* Array.prototype.join(sep), as pieces
RECURSIVE Join(_, _)
Join(s, sep) ==
    IF Len(s) <= 1 THEN s ELSE <<Head(s), sep>> \o Join(Tail(s), sep)

WeeklyThrew == [ok |-> FALSE, minute |-> 0, hour |-> 0, dow |-> <<>>, humanReadable |-> <<>>]

\* weekly(days, time), days being an array
weekly(dayArray, time) ==
    LET parsedTime == parseTime(time)
        cronDays   == SortAscending([i \in 1..Len(dayArray) |-> dayOfWeekToCron(dayArray[i])])
        timeStr    == formatTime12Hour(parsedTime.hour, parsedTime.minute)
        dayNames   == [i \in 1..Len(dayArray) |-> dayOfWeekToName(dayArray[i])]
        n          == Len(dayNames)
        text       == IF n = 1 THEN <<"every ", dayNames[1], " at ">>
                      ELSE IF n = 2
                      THEN <<"every ", dayNames[1], " and ", dayNames[2], " at ">>
                      ELSE <<"every ">> \o Join(SubSeq(dayNames, 1, n - 1), ", ")
                           \o <<", and ", dayNames[n], " at ">>
    IN  IF Len(dayArray) = 0 THEN WeeklyThrew
        ELSE IF \E i \in 1..Len(dayArray) : dayArray[i] \notin Range(validDays)
        THEN WeeklyThrew
        ELSE IF ~parsedTime.ok THEN WeeklyThrew
        ELSE [ok |-> TRUE, minute |-> parsedTime.minute, hour |-> parsedTime.hour,
              dow |-> cronDays, humanReadable |-> text \o timeStr]

InitWeekly ==
    /\ Idle
    /\ \E days \in Strings(DayTokens, MaxDays), time \in TimeStrings :
          calc = [fn |-> "weekly", days |-> days, time |-> time, done |-> FALSE,
                  out |-> WeeklyThrew]

Weekly ==
    /\ calc.fn = "weekly"
    /\ ~calc.done
    /\ calc' = [calc EXCEPT !.done = TRUE, !.out = weekly(calc.days, calc.time)]
    /\ UNCHANGED allButCalc

SpecWeekly == InitWeekly /\ [][Weekly]_vars

(***************************************************************************)
(* SpecEvery follows one call of every(interval) for every string of at    *)
(* most MaxIntervalLen characters.  A cron expression is the sequence of   *)
(* its fields: "*", a step "*/n", or a number.                             *)
(***************************************************************************)
MaxIntervalLen == 4
IntervalChars == {"0", "1", "3", "6", "9", "s", "m", "h", "d", "w", "-"}
IntervalUnits == {"s", "m", "h", "d", "w"}

Star == [k |-> "*", n |-> 0]
Step(n) == [k |-> "*/", n |-> n]
Num(n) == [k |-> "", n |-> n]

IntervalThrew == [ok |-> FALSE, value |-> 0, unit |-> ""]
\* parseInterval(interval): /^(\d+)([smhdw])$/ and value > 0, or it throws
parseInterval(interval) ==
    LET n == LeadingDigits(interval)
    IN  IF n >= 1 /\ Len(interval) = n + 1 /\ interval[n + 1] \in IntervalUnits
        THEN (IF ParseInt(SubSeq(interval, 1, n)) <= 0 THEN IntervalThrew
              ELSE [ok |-> TRUE, value |-> ParseInt(SubSeq(interval, 1, n)),
                    unit |-> interval[n + 1]])
        ELSE IntervalThrew

floorDiv(a, b) == a \div b
\* Math.ceil(a / b)
ceilDiv(a, b) == (a + b - 1) \div b

\* intervalToCron(value, unit)
RECURSIVE intervalToCron(_, _)
intervalToCron(value, unit) ==
    CASE unit = "s" ->
           IF value < 60 THEN <<Step(value), Star, Star, Star, Star, Star>>
           ELSE intervalToCron(ceilDiv(value, 60), "m")
      [] unit = "m" ->
           IF value < 60 THEN <<Step(value), Star, Star, Star, Star>>
           ELSE intervalToCron(ceilDiv(value, 60), "h")
      [] unit = "h" ->
           IF value < 24 THEN <<Num(0), Step(value), Star, Star, Star>>
           ELSE intervalToCron(ceilDiv(value, 24), "d")
      [] unit = "d" ->
           IF value = 1 THEN <<Num(0), Num(0), Star, Star, Star>>
           ELSE <<Num(0), Num(0), Step(value), Star, Star>>
      [] unit = "w" ->
           IF value = 1 THEN <<Num(0), Num(0), Star, Star, Num(0)>>
           ELSE intervalToCron(value * 7, "d")

\* intervalToHumanReadable(value, unit): `every ${value} ${unitName}`
intervalToHumanReadable(value, unit) ==
    LET singular == CASE unit = "s" -> "second" [] unit = "m" -> "minute"
                      [] unit = "h" -> "hour" [] unit = "d" -> "day" [] unit = "w" -> "week"
        plural   == CASE unit = "s" -> "seconds" [] unit = "m" -> "minutes"
                      [] unit = "h" -> "hours" [] unit = "d" -> "days" [] unit = "w" -> "weeks"
    IN  <<"every ", ToString(value), " ", IF value = 1 THEN singular ELSE plural>>

EveryThrew == [ok |-> FALSE, cron |-> <<>>, humanReadable |-> <<>>]
\* every(interval)
every(interval) ==
    LET p == parseInterval(interval)
    IN  IF ~p.ok THEN EveryThrew
        ELSE [ok |-> TRUE, cron |-> intervalToCron(p.value, p.unit),
              humanReadable |-> intervalToHumanReadable(p.value, p.unit)]

InitEvery ==
    /\ Idle
    /\ \E interval \in Strings(IntervalChars, MaxIntervalLen) :
          calc = [fn |-> "every", interval |-> interval, done |-> FALSE, out |-> EveryThrew]

Every ==
    /\ calc.fn = "every"
    /\ ~calc.done
    /\ calc' = [calc EXCEPT !.done = TRUE, !.out = every(calc.interval)]
    /\ UNCHANGED allButCalc

SpecEvery == InitEvery /\ [][Every]_vars

(***************************************************************************)
(* SpecCron follows one call of cron(expression) for the expressions made  *)
(* of at most MaxFields fields, separated by one of a few runs of          *)
(* whitespace, with or without whitespace in front and behind.             *)
(***************************************************************************)
MaxFields == 7
CronFields == { <<"*">>, <<"1", "-", "5", ",", "L", "W", "#", "/", "0">>, <<"1", "a">> }
Gaps == { <<" ">>, <<" ", " ">>, <<"\t">> }
Leads == { <<>>, <<" ">> }
Trails == { <<>>, <<"\t">> }

\* the expression as a string: the fields with gap between them
RECURSIVE Spell(_, _)
Spell(fields, gap) ==
    IF fields = <<>> THEN <<>>
    ELSE IF Len(fields) = 1 THEN fields[1]
    ELSE fields[1] \o gap \o Spell(Tail(fields), gap)

\* \s
IsSpace(c) == c \in {" ", "\t", "\n"}

\* String.prototype.trim()
RECURSIVE trimStart(_)
trimStart(s) == IF s # <<>> /\ IsSpace(Head(s)) THEN trimStart(Tail(s)) ELSE s
RECURSIVE trimEnd(_)
trimEnd(s) ==
    IF s # <<>> /\ IsSpace(s[Len(s)]) THEN trimEnd(SubSeq(s, 1, Len(s) - 1)) ELSE s
trim(s) == trimEnd(trimStart(s))

\* String.prototype.split(/\s+/): the string is cut at every run of
\* whitespace; a run in front or behind leaves an empty part
RECURSIVE SplitFrom(_, _, _, _)
SplitFrom(s, cur, acc, inGap) ==
    IF s = <<>> THEN Append(acc, cur)
    ELSE IF IsSpace(Head(s))
    THEN (IF inGap THEN SplitFrom(Tail(s), cur, acc, TRUE)
          ELSE SplitFrom(Tail(s), <<>>, Append(acc, cur), TRUE))
    ELSE SplitFrom(Tail(s), Append(cur, Head(s)), acc, FALSE)
split(s) == SplitFrom(s, <<>>, <<>>, FALSE)

\* /^[\d*,/\-LW#]+$/
validPattern(part) ==
    /\ part # <<>>
    /\ \A i \in 1..Len(part) : IsDigit(part[i]) \/ part[i] \in {"*", ",", "/", "-", "L", "W", "#"}

\* validateCronExpression(expression)
validateCronExpression(expression) ==
    LET parts == split(trim(expression))
    IN  /\ Len(parts) \in {5, 6}
        /\ \A i \in 1..Len(parts) : validPattern(parts[i])

\* parseInt(s, 10) as template literals print it: the digits in front, with
\* their sign, or NaN
parseIntText(s) ==
    LET neg  == s # <<>> /\ Head(s) = "-"
        body == IF neg THEN Tail(s) ELSE s
        n    == LeadingDigits(body)
    IN  IF n = 0 THEN [nan |-> TRUE, n |-> 0]
        ELSE [nan |-> FALSE,
              n |-> IF neg THEN 0 - ParseInt(SubSeq(body, 1, n))
                    ELSE ParseInt(SubSeq(body, 1, n))]

startsWithStep(part) == Len(part) >= 2 /\ part[1] = "*" /\ part[2] = "/"
includesStar(part) == \E i \in 1..Len(part) : part[i] = "*"

\* cronToHumanReadable(expression), as the pieces of its text
cronToHumanReadable(expression) ==
    LET parts == split(trim(expression))
        rest3 == Len(parts) = 5 /\ parts[3] = <<"*">> /\ parts[4] = <<"*">>
                 /\ parts[5] = <<"*">>
        h  == parseIntText(parts[2])
        m  == parseIntText(parts[1])
        period == IF ~h.nan /\ h.n >= 12 THEN "PM" ELSE "AM"
        h12 == IF h.nan THEN "NaN"
               ELSE IF h.n = 0 THEN "12"
               ELSE IF h.n > 12 THEN ToString(h.n - 12) ELSE ToString(h.n)
        mm  == IF m.nan THEN <<"NaN">>
               ELSE IF m.n >= 0 /\ m.n < 10 THEN <<"0", ToString(m.n)>>
               ELSE <<ToString(m.n)>>
    IN  IF rest3 /\ parts[1] = <<"*">> /\ parts[2] = <<"*">> THEN <<"every minute">>
        ELSE IF rest3 /\ startsWithStep(parts[1]) /\ parts[2] = <<"*">>
        THEN <<"every ">> \o SubSeq(parts[1], 3, Len(parts[1])) \o <<" minutes">>
        ELSE IF rest3 /\ parts[1] = <<"0">> /\ parts[2] = <<"*">> THEN <<"every hour">>
        ELSE IF rest3 /\ parts[1] = <<"0">> /\ startsWithStep(parts[2])
        THEN <<"every ">> \o SubSeq(parts[2], 3, Len(parts[2])) \o <<" hours">>
        ELSE IF rest3 /\ ~includesStar(parts[1]) /\ ~includesStar(parts[2])
        THEN <<"daily at ", h12, ":">> \o mm \o <<" ", period>>
        ELSE <<"cron: ">> \o expression

CronThrew == [ok |-> FALSE, cron |-> <<>>, humanReadable |-> <<>>]
\* cron(expression)
cron(expression) ==
    LET trimmed == trim(expression)
    IN  IF ~validateCronExpression(trimmed) THEN CronThrew
        ELSE [ok |-> TRUE, cron |-> trimmed,
              humanReadable |-> cronToHumanReadable(trimmed)]

InitCron ==
    /\ Idle
    /\ \E fields \in Strings(CronFields, MaxFields), gap \in Gaps,
          lead \in Leads, trail \in Trails :
          calc = [fn |-> "cron", fields |-> fields,
                  expression |-> lead \o Spell(fields, gap) \o trail,
                  done |-> FALSE, out |-> CronThrew]

Cron ==
    /\ calc.fn = "cron"
    /\ ~calc.done
    /\ calc' = [calc EXCEPT !.done = TRUE, !.out = cron(calc.expression)]
    /\ UNCHANGED allButCalc

SpecCron == InitCron /\ [][Cron]_vars

(***************************************************************************)
(* SpecVerify follows one call of verifyCronRequest(request) for every     *)
(* NODE_ENV, CRON_SECRET and Authorization header of at most MaxHeaderLen  *)
(* pieces, the request being a Web Request or a plain object with headers. *)
(* A header or a secret is the sequence of its pieces.                     *)
(***************************************************************************)
MaxHeaderLen == 3
HeaderPieces == {"Bearer", " ", "s", "t"}
Secrets == {<<>>, <<"s">>, <<"t">>}
NodeEnvs == {"development", "production", "test"}

\* an environment variable or a header that is there, with its value, or not
Given(value) == [set |-> TRUE, value |-> value]
NotGiven == [set |-> FALSE, value |-> <<>>]

\* request.headers.get("authorization") of a Web Request gives the value
\* without the whitespace around it; request.headers.authorization of a
\* plain object gives the value as it is
authHeaderOf(kind, header) ==
    IF kind = "Request" /\ header.set THEN Given(trim(header.value)) ELSE header

\* !x for a string | null | undefined
falsy(x) == ~x.set \/ x.value = <<>>

Verified == [ok |-> TRUE, error |-> "none"]
Refused(error) == [ok |-> FALSE, error |-> error]

verifyCronRequestAnyBearer(nodeEnv, cronSecret, kind, header) ==
    IF nodeEnv = "development" THEN Verified
    ELSE IF falsy(cronSecret) THEN Refused("CRON_SECRET environment variable not set")
    ELSE IF falsy(authHeaderOf(kind, header)) THEN Refused("Missing Authorization header")
    ELSE IF Len(authHeaderOf(kind, header).value) < 2
            \/ SubSeq(authHeaderOf(kind, header).value, 1, 2) # <<"Bearer", " ">>
    THEN Refused("Invalid Authorization header")
    ELSE Verified
\* verifyCronRequest(request), with process.env.NODE_ENV and
\* process.env.CRON_SECRET
verifyCronRequest(nodeEnv, cronSecret, kind, header) ==
    LET authHeader     == authHeaderOf(kind, header)
        expectedHeader == <<"Bearer", " ">> \o cronSecret.value
    IN  IF nodeEnv = "development" THEN Verified
        ELSE IF falsy(cronSecret)
        THEN Refused("CRON_SECRET environment variable not set")
        ELSE IF falsy(authHeader) THEN Refused("Missing Authorization header")
        ELSE IF authHeader.value # expectedHeader
        THEN Refused("Invalid Authorization header")
        ELSE Verified

InitVerify ==
    /\ Idle
    /\ \E nodeEnv \in NodeEnvs,
          cronSecret \in {NotGiven} \cup {Given(s) : s \in Secrets},
          kind \in {"Request", "object"},
          header \in {NotGiven} \cup {Given(h) : h \in Strings(HeaderPieces, MaxHeaderLen)} :
          calc = [fn |-> "verifyCronRequest", nodeEnv |-> nodeEnv,
                  cronSecret |-> cronSecret, kind |-> kind, header |-> header,
                  done |-> FALSE, out |-> Refused("none")]

VerifyCronRequest ==
    /\ calc.fn = "verifyCronRequest"
    /\ ~calc.done
    /\ calc' = [calc EXCEPT !.done = TRUE,
                  !.out = verifyCronRequest(calc.nodeEnv, calc.cronSecret, calc.kind,
                                            calc.header)]
    /\ UNCHANGED allButCalc

SpecVerify == InitVerify /\ [][VerifyCronRequest]_vars

(***************************************************************************)
(* The scheduler's triggers: SpecTriggers follows the calls of add,        *)
(* remove, start, stop, shutdown and clear for two job ids, in any order,  *)
(* with no run in flight.                                                  *)
(***************************************************************************)
SchedulerAdd(id) ==
    /\ Len(scheduler.crons) < MaxCrons
    /\ scheduler' = add(scheduler, id)
    /\ UNCHANGED <<listeners, run, emitted, delivered, schedVars, workerVars, now,
                   handles, registry, calc, dash, onJobComplete>>

SchedulerRemove(id) ==
    /\ scheduler' = removeJob(scheduler, id)
    /\ UNCHANGED <<listeners, run, emitted, delivered, schedVars, workerVars, now,
                   handles, registry, calc, dash, onJobComplete>>

SchedulerStart ==
    /\ scheduler' = start(scheduler)
    /\ UNCHANGED <<listeners, run, emitted, delivered, schedVars, workerVars, now,
                   handles, registry, calc, dash, onJobComplete>>

SchedulerStop ==
    /\ scheduler' = stop(scheduler)
    /\ UNCHANGED <<listeners, run, emitted, delivered, schedVars, workerVars, now,
                   handles, registry, calc, dash, onJobComplete>>

SchedulerClear ==
    /\ scheduler' = clearJobs(scheduler)
    /\ UNCHANGED <<listeners, run, emitted, delivered, schedVars, workerVars, now,
                   handles, registry, calc, dash, onJobComplete>>

NextTriggers ==
    \/ \E id \in JobIds : SchedulerAdd(id)
    \/ \E id \in JobIds : SchedulerRemove(id)
    \/ SchedulerStart
    \/ SchedulerStop
    \/ \E x \in ShutdownCalls : Shutdown(x)
    \/ SchedulerClear

SpecTriggers == InitSched /\ [][NextTriggers]_vars

(***************************************************************************)
(* One run under the scheduling the code relies on: SpecRunFair is         *)
(* SpecAttempts with the timers firing once their delay is over (the       *)
(* attempt's timeout, the sleep between attempts) and an exception thrown  *)
(* synchronously being caught.  The handler and the callbacks are the      *)
(* user's code: nothing makes them settle.                                 *)
(***************************************************************************)
SpecRunFair ==
    /\ SpecAttempts
    /\ \A r \in EngineCalls :
          /\ WF_vars(TimerFires(r))
          /\ WF_vars(SleepDone(r))
          /\ WF_vars(TimeoutParseFails(r))

(***************************************************************************)
(* One run with a listener that may throw: SpecCallbacks is SpecAttempts   *)
(* with engine.on("*", L1) called at any time, before or during the run.   *)
(***************************************************************************)
NextCallbacks ==
    \/ On("*", "L1")
    \/ \E r \in EngineCalls, job \in JobInputs : ExecuteJob(r, job)
    \/ \E r \in EngineCalls : HandlerResolves(r)
    \/ \E r \in EngineCalls, err \in {"Error", "TimeoutError"} : HandlerThrows(r, err)
    \/ \E r \in EngineCalls : TimerFires(r)
    \/ \E r \in EngineCalls, a \in 1..MaxAttempts : BackgroundHandlerSettles(r, a)
    \/ \E r \in EngineCalls : TimeoutParseFails(r)
    \/ \E r \in EngineCalls : SleepDone(r)
    \/ \E r \in EngineCalls, threw \in BOOLEAN : CallbackSettles(r, threw)

SpecCallbacks == Init /\ [][NextCallbacks]_vars

(***************************************************************************)
(* What the claims speak of.                                               *)
(***************************************************************************)
EventsOf(r) == SelectSeq(emitted, LAMBDA e : e.runId = r)

NumEvents(r, types) ==
    Cardinality({i \in 1..Len(emitted) :
                    emitted[i].runId = r /\ emitted[i].type \in types})

Settled(r) == run[r].pc \in {"returned", "rejected"}
Returned(r) == run[r].pc = "returned"

\* the configurations the data model allows: retry.attempts >= 1, and
\* timeout and initialDelay are duration strings parseDuration accepts
ValidConfig(job) ==
    /\ job.timeoutOk
    /\ job.hasRetry => (job.attempts >= 1 /\ job.delayOk)

(***************************************************************************)
(* C1: every call of engine.run emits exactly one job:start and exactly    *)
(* one terminal event (job:success, job:failure or job:timeout) with the   *)
(* run's runId: never more than one of either, and one of each once the    *)
(* call has settled.  Stated for the jobs of a valid configuration.        *)
(***************************************************************************)
C1_OneStartOneTerminal ==
    \A r \in EngineCalls :
        ValidConfig(run[r].job) =>
            /\ NumEvents(r, {"job:start"}) <= 1
            /\ NumEvents(r, TerminalTypes) <= 1
            /\ Settled(r) => /\ NumEvents(r, {"job:start"}) = 1
                             /\ NumEvents(r, TerminalTypes) = 1

(***************************************************************************)
(* C2: the events of one run come in the order job:start, job:retry*,      *)
(* terminal event, with nothing after the terminal event, and the k-th     *)
(* job:retry carries attempt = k.                                          *)
(***************************************************************************)
C2_EventOrder ==
    \A r \in EngineCalls :
        LET evs == EventsOf(r)
        IN  \A i \in 1..Len(evs) :
                /\ (i = 1) <=> (evs[i].type = "job:start")
                /\ evs[i].type \in TerminalTypes => i = Len(evs)
                /\ evs[i].type = "job:retry" => evs[i].attempt = i - 1

(***************************************************************************)
(* C3: the attempt field of the ExecutionResult that engine.run returns    *)
(* equals the number of times the handler was invoked in that run.  Stated *)
(* for the jobs whose retry.attempts is at least 1.                        *)
(***************************************************************************)
C3_AttemptIsHandlerCalls ==
    \A r \in EngineCalls :
        (Returned(r) /\ maxAttempts(run[r].job) >= 1) =>
            run[r].result.attempt = run[r].handlerCalls

(***************************************************************************)
(* C4: engine.run and CronScheduler.executeJob never reject: every error   *)
(* of a run ends up in the ExecutionResult.  Stated for the jobs of a      *)
(* valid configuration.                                                    *)
(***************************************************************************)
C4_NeverRejects ==
    \A r \in EngineCalls :
        ValidConfig(run[r].job) =>
            /\ run[r].pc # "rejected"
            /\ exec[r] # "rejected"

(***************************************************************************)
(* C5: once an attempt of a run has completed successfully, the handler is *)
(* not invoked again, no job:failure and no job:timeout is emitted for the *)
(* run, and the result the run returns has status success.                 *)
(***************************************************************************)
C5_SuccessIsFinal ==
    \A r \in EngineCalls :
        run[r].succeeded =>
            /\ run[r].handlerCalls = run[r].callsAtSuccess
            /\ NumEvents(r, {"job:failure", "job:timeout"}) = 0
            /\ Returned(r) => run[r].result.status = "success"

(***************************************************************************)
(* C6: for every run that has returned its result, the number of job:retry *)
(* events with its runId is result.attempt - 1, whatever the status.       *)
(***************************************************************************)
C6_RetryCount ==
    \A r \in EngineCalls :
        Returned(r) => NumEvents(r, {"job:retry"}) = run[r].result.attempt - 1

\* a run that failed twice and returned at its third attempt
C6_Witness ==
    \E r \in EngineCalls :
        /\ Returned(r)
        /\ run[r].result.attempt = 3
        /\ NumEvents(r, {"job:retry"}) = 2

(***************************************************************************)
(* C7: an exception of a listener never reaches the emitter: for every     *)
(* emitted event all the listeners subscribed to it were invoked, and none *)
(* of their exceptions left emit().                                        *)
(***************************************************************************)
C7_ListenerIsolation ==
    \A i \in 1..Len(emitted) :
        /\ ~emitted[i].threw
        /\ emitted[i].invoked = emitted[i].targets

(***************************************************************************)
(* C8: an error of the onSuccess or onFailure callback is swallowed: from  *)
(* the call of the callback on, the run goes nowhere but to returning the  *)
(* result built before the call, with no further event and no further      *)
(* handler invocation, and it never rejects.                               *)
(***************************************************************************)
C8_CallbackErrorsSwallowed ==
    [][\A r \in EngineCalls :
          run[r].pc \in {"onSuccess", "onFailure"} =>
              /\ run'[r].pc \in {run[r].pc, "returned"}
              /\ run'[r].result = run[r].result
              /\ run'[r].handlerCalls = run[r].handlerCalls
              /\ EventsOf(r)' = EventsOf(r)]_vars

\* a run has returned after its callback threw
C8_Witness ==
    \E r \in EngineCalls :
        /\ run[r].callbackThrew
        /\ Returned(r)
        /\ run[r].onSuccessCalls + run[r].onFailureCalls = 1

(***************************************************************************)
(* C9: when the attempts of a run are used up, the status is timeout and   *)
(* the terminal event job:timeout exactly when the error that ended the    *)
(* last attempt is a TimeoutError, and failure / job:failure otherwise;    *)
(* the errors of the earlier attempts play no part.                        *)
(***************************************************************************)
C9_TimeoutClassification ==
    \A r \in EngineCalls :
        (Returned(r) /\ run[r].result.status # "success" /\ run[r].errors # <<>>) =>
            LET evs  == EventsOf(r)
                last == run[r].errors[Len(run[r].errors)]
            IN  /\ run[r].result.status = "timeout" <=> last = "TimeoutError"
                /\ run[r].result.status = "failure" <=> last # "TimeoutError"
                /\ evs[Len(evs)].type = "job:timeout" <=> last = "TimeoutError"
                /\ evs[Len(evs)].type = "job:failure" <=> last # "TimeoutError"

\* a run ended with status timeout after an earlier attempt failed with an
\* ordinary error, the timer having fired in the last attempt
C9_Witness ==
    \E r \in EngineCalls :
        /\ Returned(r)
        /\ run[r].result.status = "timeout"
        /\ Len(run[r].errors) >= 2
        /\ run[r].errors[1] = "Error"
        /\ run[r].result.attempt \in run[r].timedOut

(***************************************************************************)
(* C10: the signal handed to the handler of an attempt is aborted exactly  *)
(* when the timer of that attempt has fired.  (run() creates one           *)
(* AbortController and hands its signal to every attempt.)                 *)
(***************************************************************************)
C10_TimeoutAbortsSignal ==
    \A r \in EngineCalls :
        \A a \in 1..run[r].attempt :
            (a \in run[r].timedOut) <=> run[r].aborted

\* the number of times j occurs in the list seq
Count(seq, j) == Cardinality({i \in 1..Len(seq) : seq[i] = j})

\* the handler invocation the run is awaiting, if any
Current(r) ==
    IF run[r].pc = "attempt" /\ run[r].pending = "handler"
    THEN {run[r].attempt} ELSE {}

(***************************************************************************)
(* C11 as stated: within one run at most one handler invocation is         *)
(* executing at any time, also after an attempt ended by timeout.          *)
(***************************************************************************)
C11_OneInvocationAtATime ==
    \A r \in DOMAIN run : Cardinality(run[r].running) <= 1

(***************************************************************************)
(* C11 amended: the attempts of a run are sequential: at most one          *)
(* invocation is running that has not timed out, and it is the one of the  *)
(* current attempt, which the run is awaiting; every other invocation      *)
(* still running belongs to an earlier attempt that ended by timeout.      *)
(***************************************************************************)
C11_SequentialAttempts ==
    \A r \in DOMAIN run :
        /\ run[r].running \ run[r].timedOut \subseteq Current(r)
        /\ \A a \in run[r].running : a <= run[r].attempt
        /\ Current(r) \subseteq run[r].running

\* the handler of attempt 2 is running while the invocation of attempt 1,
\* which timed out, has not ended
C11_Witness ==
    \E r \in DOMAIN run :
        /\ Current(r) = {2}
        /\ run[r].running = {1, 2}
        /\ 1 \in run[r].timedOut

(***************************************************************************)
(* C12: a call of executeJob made while shuttingDown is true returns the   *)
(* synthetic result (status failure, attempt 0, a skipped_ runId, the      *)
(* message "Scheduler is shutting down") and leaves the engine alone: no   *)
(* run, no handler invocation, no event, no in-flight entry.               *)
(***************************************************************************)
C12_SkippedWhileShuttingDown ==
    [][\A r \in DOMAIN exec :
          (shuttingDown /\ exec[r] = "none" /\ exec'[r] # "none") =>
              /\ exec'[r] = "skipped"
              /\ execResult'[r].status = "failure"
              /\ execResult'[r].attempt = 0
              /\ execResult'[r].runId = <<"skipped">>
              /\ execResult'[r].error = "Scheduler is shutting down"
              /\ run' = run
              /\ emitted' = emitted
              /\ delivered' = delivered
              /\ inFlightJobs' = inFlightJobs]_vars

\* a fire was skipped while a shutdown was waiting for a run in flight
C12_Witness ==
    \E r \in DOMAIN exec, x \in DOMAIN sd :
        /\ exec[r] = "skipped"
        /\ run[r].handlerCalls = 0
        /\ sd[x].state = "waiting"
        /\ inFlightJobs # {}

(***************************************************************************)
(* C13: when shutdown has returned, every run that was in flight at the    *)
(* call is in exactly one of the two lists: for every job, the entries of  *)
(* completed and interrupted with its id are together as many as its runs  *)
(* that were in flight at the call.                                        *)
(***************************************************************************)
C13_ExactlyOneList ==
    \A x \in DOMAIN sd :
        sd[x].state = "returned" =>
            \A j \in {"a", "b"} :
                Count(SubSeq(sd[x].completed, 1, sd[x].atReturn), j)
                    + Count(sd[x].interrupted, j)
                = Cardinality({r \in sd[x].entries : jobIdOf(r) = j})

(***************************************************************************)
(* C15: once the shutdown calls made so far have all returned,             *)
(* isShuttingDown() is false, whether or not a run was in flight at the    *)
(* call.                                                                   *)
(***************************************************************************)
C15_FlagClearedAfterReturn ==
    (\A x \in DOMAIN sd : sd[x].state # "waiting") => ~shuttingDown

C17_OverlappingFiresRun ==
    [][/\ \A r \in DOMAIN exec :
             ( /\ ~shuttingDown /\ inFlightJobs # {}
               /\ exec[r] = "none" /\ exec'[r] # "none" ) =>
                 /\ exec'[r] = "awaiting"
                 /\ inFlightJobs' = inFlightJobs \cup {r}
                 /\ run'[r].handlerCalls = 1
                 /\ EventsOf(r)' # <<>>
                 /\ \A q \in inFlightJobs : /\ run'[q] = run[q]
                                            /\ EventsOf(q)' = EventsOf(q)
       /\ \A r \in DOMAIN run :
             Returned(r)' =>
                 LET evs == EventsOf(r)'
                 IN  /\ Len(evs) >= 2
                     /\ \A i \in 1..Len(evs) :
                           /\ (i = 1) <=> (evs[i].type = "job:start")
                           /\ (i = Len(evs)) <=> (evs[i].type \in TerminalTypes)]_vars

\* two runs of the same job were in flight together and both have returned
C17_Witness ==
    \E q, r \in DOMAIN run :
        /\ q < r
        /\ jobIdOf(q) = jobIdOf(r)
        /\ jobIdOf(q) # "none"
        /\ Returned(q) /\ Returned(r)
        /\ \E i, k \in 1..Len(emitted) :
              /\ i < k
              /\ emitted[i].runId = r /\ emitted[i].type = "job:start"
              /\ emitted[k].runId = q /\ emitted[k].type \in TerminalTypes

C18_OneEntryPerRun ==
    /\ inFlightJobs = {r \in DOMAIN exec : exec[r] = "awaiting"}
    /\ {e.r : e \in inFlight} = {r \in DOMAIN wexec : wexec[r].state = "awaiting"}
    /\ Cardinality(inFlight) = Cardinality({e.r : e \in inFlight})

(***************************************************************************)
(* C19: the process has exited only when no call of stop made by a signal  *)
(* handler is still waiting for the runs in flight: they have all settled  *)
(* or the shutdown timeout has elapsed.                                    *)
(***************************************************************************)
C19_ExitAfterShutdown ==
    worker.exited =>
        \A x \in DOMAIN wstop : wstop[x].exit => wstop[x].state # "waiting"

\* the listeners invoked for the i-th emitted event, in the order of their
\* invocation
InvokedFor(i) ==
    LET ds == SelectSeq(delivered, LAMBDA x : x.event = i)
    IN  [k \in 1..Len(ds) |-> ds[k].listener]

(***************************************************************************)
(* C20: for every emitted event the listeners invoked are exactly those    *)
(* subscribed under its type followed by those subscribed under "*", each  *)
(* once and in the order of registration.                                  *)
(***************************************************************************)
C20_EveryListenerOnce ==
    \A i \in 1..Len(emitted) :
        InvokedFor(i) = listeners[emitted[i].type] \o listeners["*"]

(***************************************************************************)
(* C21: once the function that on(type, listener) returned has been        *)
(* called, the listener is no longer subscribed under that type, every     *)
(* other subscription is as it was, and a further call of the function     *)
(* changes nothing; after removeAllListeners() nothing is subscribed; and  *)
(* an event invokes none but the listeners subscribed when it is emitted.  *)
(***************************************************************************)
Unsubscribing(h) == h \in DOMAIN handles /\ handles'[h].calls = handles[h].calls + 1

C21_Unsubscribe ==
    [][ /\ \A h \in DOMAIN handles :
              Unsubscribing(h) =>
                 /\ handles[h].l \notin Range(listeners'[handles[h].key])
                 /\ \A k \in EventKeys :
                       listeners'[k] =
                          IF k = handles[h].key /\ handles[h].calls = 0
                          THEN Without(listeners[k], handles[h].l)
                          ELSE listeners[k]
        /\ RemoveAllListeners => \A k \in EventKeys : listeners'[k] = <<>>
        /\ \A i \in (Len(delivered) + 1)..Len(delivered') :
              delivered'[i].listener \in
                 Range(EmitTargets(listeners, emitted'[delivered'[i].event].type))
      ]_vars

(***************************************************************************)
(* C22: register(J) with an id that is absent makes getById(J.id) return   *)
(* J; with an id that is present it throws "already registered" and leaves *)
(* the registry as it was; remove(id) returns true exactly when an entry   *)
(* was present, and the id is absent afterwards; size is always the number *)
(* of ids present.                                                         *)
(***************************************************************************)
IdsPresent(reg) == {id \in JobIds \cup {"c"} : has(reg, id)}

C22_RegistryLaw ==
    [][ /\ calc'.fn = "register" =>
              IF has(registry, calc'.arg.id)
              THEN calc'.out = "already registered" /\ registry' = registry
              ELSE calc'.out = "ok" /\ getById(registry', calc'.arg.id) = calc'.arg
        /\ calc'.fn = "remove" =>
              /\ calc'.out = "true" <=> has(registry, calc'.arg)
              /\ ~has(registry', calc'.arg)
        /\ size(registry') = Cardinality(IdsPresent(registry'))
      ]_vars

\* a definition of an id has been turned down while another is registered
C22_Witness ==
    /\ calc.fn = "register"
    /\ calc.out = "already registered"
    /\ getById(registry, calc.arg.id) # calc.arg
    /\ size(registry) = 2

(***************************************************************************)
(* C23: the dashboard reports a registered job as "running" exactly when a *)
(* run of it has emitted job:start and not yet its terminal event, however *)
(* many runs of the job overlap; else as success or failed after the       *)
(* newest entry of its history, or idle when it has none.                  *)
(***************************************************************************)
RunsInFlight(id) ==
    {r \in DOMAIN run : /\ run[r].job.id = id
                        /\ NumEvents(r, {"job:start"}) >= 1
                        /\ NumEvents(r, TerminalTypes) = 0}

C23_RunningWhileInFlight ==
    \A id \in IdsPresent(registry) :
        JobStatus(dash, id) =
           IF RunsInFlight(id) # {} THEN "running"
           ELSE IF dash.history[id] = <<>> THEN "idle"
           ELSE IF dash.history[id][1].status = "success" THEN "success"
           ELSE "failed"

(***************************************************************************)
(* C24: the dashboard's history of a job never holds more than 50 entries; *)
(* a terminal event of a registered job puts one entry for it at the front *)
(* of the job's history and, when that makes 51, drops the last (oldest)   *)
(* one; nothing else changes a history.                                    *)
(***************************************************************************)
NewTerminals == {i \in (Len(emitted) + 1)..Len(emitted') : emitted'[i].type \in TerminalTypes}

Min(a, b) == IF a < b THEN a ELSE b

C24_HistoryRing ==
    [][ /\ \A id \in JobIds : Len(dash'.history[id]) <= 50
        /\ \A id \in JobIds :
              LET mine == {i \in NewTerminals :
                              /\ run'[emitted'[i].runId].job.id = id
                              /\ has(registry, id)}
                  old  == dash.history[id]
                  new  == dash'.history[id]
              IN  /\ Cardinality(mine) <= 1
                  /\ mine = {} => new = old
                  /\ \A i \in mine :
                        /\ Len(new) = Min(Len(old) + 1, 50)
                        /\ new[1].runId = emitted'[i].runId
                        /\ new[1].attempt = emitted'[i].attempt
                        /\ new[1].status = HistoryStatus(emitted'[i].type)
                        /\ \A k \in 2..Len(new) : new[k] = old[k - 1]
      ]_vars

\* a run has ended with the history full: its entry is in front and the
\* oldest of the 50 before it is gone
C24_Witness ==
    /\ Len(dash.history["a"]) = 50
    /\ dash.history["a"][1].runId \in SchedCalls
    /\ dash.history["a"][50].runId = 0 - 49

(***************************************************************************)
(* C25: the wait after failed attempt k is d0 * k under linear backoff and *)
(* d0 * 2^(k-1) under exponential backoff, in milliseconds, where d0 is    *)
(* the parsed initialDelay, or 1000 when there is none, and the backoff is *)
(* linear when there is none.                                              *)
(***************************************************************************)
C25_BackoffDelay ==
    (calc.fn = "calculateRetryDelay" /\ calc.done) =>
        LET k  == calc.attempt
            d0 == IF calc.config.initialDelay = Absent THEN Ms(0, 1000)
                  ELSE parseDuration(calc.config.initialDelay).ms
            parses == calc.config.initialDelay = Absent
                      \/ parseDuration(calc.config.initialDelay).ok
        IN  parses =>
              /\ calc.config.backoff \in {NoBackoff, "linear"} =>
                    calc.out = [ok |-> TRUE, ms |-> Times(d0, k)]
              /\ calc.config.backoff = "exponential" =>
                    calc.out = [ok |-> TRUE, ms |-> Times(d0, 2^(k - 1))]

\* the third attempt of a job with exponential backoff from 5 s has failed
C25_Witness ==
    /\ calc.fn = "calculateRetryDelay"
    /\ calc.done
    /\ calc.attempt = 3
    /\ calc.config = [initialDelay |-> <<"5", "s">>, backoff |-> "exponential"]
    /\ calc.out.ms = Ms(0, 20000)

(***************************************************************************)
(* C26: every job that discoverJobs returns has the id that its file's     *)
(* path gives: the path relative to the jobs directory, without the        *)
(* extension, with "/" for every separator; so the ids are the same after  *)
(* every discovery.                                                        *)
(***************************************************************************)
C26_IdFromPath ==
    calc.fn = "discoverJobs" =>
        \A i \in 1..Len(calc.jobs) :
            LET path == calc.jobs[i].filePath
            IN  calc.jobs[i].id =
                   [k \in 1..(Len(path) - 1) |-> IF path[k] = "\\" THEN "/" ELSE path[k]]

(***************************************************************************)
(* C27: the day-of-week field of the cron expression of weekly(days, time) *)
(* lists every requested day once, as its number 0..6 (sun = 0), in        *)
(* ascending order, whatever the order of the days and however often a day *)
(* is repeated.                                                            *)
(***************************************************************************)
Requested == {dayOfWeekToCron(calc.days[i]) : i \in 1..Len(calc.days)}

C27_DaysOnceAscending ==
    (calc.fn = "weekly" /\ calc.done /\ calc.out.ok) =>
        /\ Range(calc.out.dow) = Requested
        /\ \A i \in 1..(Len(calc.out.dow) - 1) : calc.out.dow[i] < calc.out.dow[i + 1]

(***************************************************************************)
(* C28: the human-readable text of weekly(days, time) names the requested  *)
(* days in ascending weekday order, the order of the cron field, whatever  *)
(* the order they were given in (here: for days given without repetition). *)
(***************************************************************************)
NamesIn(text) == SelectSeq(text, LAMBDA p : p \in {dayOfWeekToName(d) : d \in Range(validDays)})

NameOfNumber(n) == dayOfWeekToName(CHOOSE d \in Range(validDays) : dayOfWeekToCron(d) = n)

C28_NamesAscending ==
    (/\ calc.fn = "weekly" /\ calc.done /\ calc.out.ok
     /\ Cardinality(Requested) = Len(calc.days)) =>
        NamesIn(calc.out.humanReadable) =
           [i \in 1..Len(calc.out.dow) |-> NameOfNumber(calc.out.dow[i])]

(***************************************************************************)
(* C29: every(interval) accepts exactly the strings of a number N > 0      *)
(* followed by one unit of s, m, h, d, w, and lowers them by this table:   *)
(*   Ns: N < 60: the six fields */N * * * * *; else as ceil(N/60) m        *)
(*   Nm: N < 60: */N * * * *;                  else as ceil(N/60) h        *)
(*   Nh: N < 24: 0 */N * * *;                  else as ceil(N/24) d        *)
(*   1d: 0 0 * * *;      Nd, N > 1: 0 0 */N * *                            *)
(*   1w: 0 0 * * 0;      Nw, N > 1: as (N * 7) d                           *)
(***************************************************************************)
Ceil(a, b) == IF a % b = 0 THEN a \div b ELSE a \div b + 1

RECURSIVE Lowered(_, _)
Lowered(N, u) ==
    IF u = "s" THEN (IF N < 60 THEN <<Step(N), Star, Star, Star, Star, Star>>
                     ELSE Lowered(Ceil(N, 60), "m"))
    ELSE IF u = "m" THEN (IF N < 60 THEN <<Step(N), Star, Star, Star, Star>>
                          ELSE Lowered(Ceil(N, 60), "h"))
    ELSE IF u = "h" THEN (IF N < 24 THEN <<Num(0), Step(N), Star, Star, Star>>
                          ELSE Lowered(Ceil(N, 24), "d"))
    ELSE IF u = "d" THEN (IF N = 1 THEN <<Num(0), Num(0), Star, Star, Star>>
                          ELSE <<Num(0), Num(0), Step(N), Star, Star>>)
    ELSE (IF N = 1 THEN <<Num(0), Num(0), Star, Star, Num(0)>>
          ELSE Lowered(N * 7, "d"))

C29_IntervalTable ==
    (calc.fn = "every" /\ calc.done) =>
        LET s      == calc.interval
            digits == SubSeq(s, 1, Len(s) - 1)
            wellFormed == /\ Len(s) >= 2
                          /\ \A i \in 1..Len(digits) : IsDigit(digits[i])
                          /\ s[Len(s)] \in {"s", "m", "h", "d", "w"}
        IN  IF wellFormed /\ ParseInt(digits) > 0
            THEN calc.out.ok /\ calc.out.cron = Lowered(ParseInt(digits), s[Len(s)])
            ELSE ~calc.out.ok

\* every("90s") has been lowered to a step of 2 minutes
C29_Witness ==
    /\ calc.fn = "every"
    /\ calc.done
    /\ calc.interval = <<"9", "0", "s">>
    /\ calc.out.cron = <<Step(2), Star, Star, Star, Star>>

(***************************************************************************)
(* C30: cron(expression) accepts the expression exactly when it is 5 or 6  *)
(* fields, delimited by whitespace, of the characters 0-9 * , / - L W #,   *)
(* and what it stores is the fields with one space between each two: no    *)
(* whitespace in front or behind, every run inside compressed.             *)
(***************************************************************************)
C30_AcceptsAndCanonicalizes ==
    (calc.fn = "cron" /\ calc.done) =>
        LET wellFormed ==
               /\ Len(calc.fields) \in {5, 6}
               /\ \A i \in 1..Len(calc.fields) :
                     \A k \in 1..Len(calc.fields[i]) :
                        calc.fields[i][k] \in
                           {"0", "1", "2", "3", "4", "5", "6", "7", "8", "9",
                            "*", ",", "/", "-", "L", "W", "#"}
        IN  /\ calc.out.ok <=> wellFormed
            /\ calc.out.ok => calc.out.cron = Spell(calc.fields, <<" ">>)

(***************************************************************************)
(* C31: verifyCronRequest returns ok whenever NODE_ENV is development;     *)
(* otherwise it returns ok exactly when CRON_SECRET is set and the         *)
(* Authorization header it receives is "Bearer " followed by the secret,   *)
(* and the error it reports is, in this priority: secret not set, header   *)
(* missing, header invalid.  C31_VerifyIffSet takes "set" as it stands: a  *)
(* secret set to the empty string counts as set.                           *)
(***************************************************************************)
Received == authHeaderOf(calc.kind, calc.header)

VerifyLaw(secretSet) ==
    (calc.fn = "verifyCronRequest" /\ calc.done) =>
        IF calc.nodeEnv = "development" THEN calc.out.ok
        ELSE /\ calc.out.ok <=>
                  /\ secretSet
                  /\ Received.set
                  /\ Received.value = <<"Bearer", " ">> \o calc.cronSecret.value
             /\ ~calc.out.ok =>
                  calc.out.error =
                     IF ~secretSet THEN "CRON_SECRET environment variable not set"
                     ELSE IF ~Received.set \/ Received.value = <<>>
                     THEN "Missing Authorization header"
                     ELSE "Invalid Authorization header"

C31_VerifyIffSet == VerifyLaw(calc.cronSecret.set)

(***************************************************************************)
(* C31, amended: the same with "set" read as set to a string that is not   *)
(* empty: an empty CRON_SECRET is reported as not set, whatever the header.*)
(***************************************************************************)
C31_VerifyIffNonEmpty == VerifyLaw(calc.cronSecret.set /\ calc.cronSecret.value # <<>>)

\* outside development a request whose header is "Bearer " and the secret
\* has been let through
C31_Witness ==
    /\ calc.fn = "verifyCronRequest"
    /\ calc.done
    /\ calc.nodeEnv = "production"
    /\ calc.cronSecret = Given(<<"s">>)
    /\ calc.header = Given(<<"Bearer", " ", "s">>)
    /\ calc.out.ok

(***************************************************************************)
(* C32: in every run that has settled the handler was invoked at least     *)
(* once and at most maxAttempts times, maxAttempts being retry.attempts,   *)
(* or 1 without retry (and then no job:retry was emitted); a run that      *)
(* returned a result other than success has result.attempt = maxAttempts.  *)
(* Stated for the jobs of a valid configuration.                           *)
(***************************************************************************)
C32_HandlerCallsBounded ==
    \A r \in EngineCalls :
        (Settled(r) /\ ValidConfig(run[r].job)) =>
            /\ run[r].handlerCalls >= 1
            /\ run[r].handlerCalls <= maxAttempts(run[r].job)
            /\ ~run[r].job.hasRetry => NumEvents(r, {"job:retry"}) = 0
            /\ (Returned(r) /\ run[r].result.status # "success") =>
                   run[r].result.attempt = maxAttempts(run[r].job)

C34_OneTriggerArmedIffRunning ==
    LET s == scheduler
    IN  /\ \A i, j \in 1..Len(s.scheduledJobs) :
              s.scheduledJobs[i].id = s.scheduledJobs[j].id => i = j
        /\ \A id \in JobIds :
              Cardinality({c \in DOMAIN s.crons :
                              s.crons[c].id = id /\ s.crons[c].state # "stopped"}) <= 1
        /\ \A c \in DOMAIN s.crons :
              IF c \in Held(s)
              THEN s.crons[c].state = (IF s.running THEN "armed" ELSE "paused")
              ELSE s.crons[c].state = "stopped"

\* add was called for a present id while the scheduler was running: the old
\* trigger is stopped and the new one is armed, next to another job's
C34_Witness ==
    /\ scheduler.running
    /\ Len(scheduler.crons) = 3
    /\ Len(scheduler.scheduledJobs) = 2
    /\ \E c, d \in DOMAIN scheduler.crons :
          /\ c < d
          /\ scheduler.crons[c].id = scheduler.crons[d].id
          /\ scheduler.crons[c].state = "stopped"
          /\ scheduler.crons[d].state = "armed"
    /\ \E x \in DOMAIN sd : sd[x].state = "returned"

(***************************************************************************)
(* C35: every call of engine.run returns its ExecutionResult in the end,   *)
(* also when the handler never settles and also when the onSuccess or      *)
(* onFailure callback never settles.  Stated for the jobs of a valid       *)
(* configuration, with no listener subscribed.                             *)
(***************************************************************************)
C35_RunReturns ==
    \A r \in EngineCalls :
        (run[r].pc # "idle" /\ ValidConfig(run[r].job)) ~> Returned(r)

(***************************************************************************)
(* C36: once a call of shutdown has returned, the completed and the        *)
(* interrupted list it returned do not change any more and no job id is in *)
(* both, also when a run reported as interrupted settles afterwards.       *)
(***************************************************************************)
C36_ReturnedListsFrozen ==
    [][\A x \in DOMAIN sd :
          sd[x].state = "returned" =>
              /\ sd'[x].completed = sd[x].completed
              /\ sd'[x].interrupted = sd[x].interrupted
              /\ Range(sd'[x].completed) \cap Range(sd'[x].interrupted) = {}]_vars

(***************************************************************************)
(* C37: while a call of shutdown is waiting for in-flight runs,            *)
(* isShuttingDown() is true and a call of executeJob returns the synthetic *)
(* failure, also when an overlapping call of shutdown has returned.        *)
(***************************************************************************)
C37_FlagWhileAnyWaits ==
    [][(\E x \in DOMAIN sd : sd[x].state = "waiting") =>
          /\ shuttingDown
          /\ \A r \in DOMAIN exec :
                (exec[r] = "none" /\ exec'[r] # "none") => exec'[r] = "skipped"]_vars

(***************************************************************************)
(* C38: in any interleaving of the calls of start() and stop() the         *)
(* discovered job has at most one armed trigger at any time, and when a    *)
(* call of stop() made after a call of start() had returned comes to its   *)
(* end, no trigger is armed and isRunning() is false.                      *)
(***************************************************************************)
C38_OneTriggerNoneAfterStop ==
    [][/\ worker'.armed <= 1
       /\ \A x \in DOMAIN wstop :
             ( /\ wstop[x].state # "returned"
               /\ wstop'[x].state = "returned"
               /\ wstop'[x].started )
             => (worker'.armed = 0 /\ ~worker'.running)]_vars

(***************************************************************************)
(* C39: when the terminal event of a run is emitted while the worker is    *)
(* started (running, and not in stop()), options.onJobComplete has been    *)
(* called exactly once for the run, with the run's job id and run id and   *)
(* the status of the terminal event, be it success, failure or timeout.    *)
(***************************************************************************)
TerminalsOf(em, r) == SelectSeq(em, LAMBDA e : e.runId = r /\ e.type \in TerminalTypes)
CompletesOf(calls, r) == SelectSeq(calls, LAMBDA c : c.runId = r)

C39_OnJobCompleteOnce ==
    [][\A r \in DOMAIN wexec :
          ( /\ worker.running /\ ~worker.shuttingDown
            /\ TerminalsOf(emitted, r) = <<>>
            /\ TerminalsOf(emitted', r) # <<>> )
          => /\ Len(CompletesOf(onJobComplete', r)) = 1
             /\ CompletesOf(onJobComplete', r)[1] =
                   [jobId  |-> run'[r].job.id, runId |-> r,
                    status |-> HistoryStatus(TerminalsOf(emitted', r)[1].type)]]_vars

(***************************************************************************)
(* C40: for every accepted interval "N<unit>" the cron expression of       *)
(* every() fires at instants exactly N units apart: the time between any   *)
(* two consecutive fires is the requested interval.  A field "*/n" matches *)
(* every n-th value of its range from the least value on, in every period  *)
(* of the range; times are in seconds.                                     *)
(***************************************************************************)
\* the distances between consecutive matches of "*/n" in a field of range lo..hi
FieldGaps(n, lo, hi) ==
    LET last == lo + n * ((hi - lo) \div n)
    IN  (IF last > lo THEN {n} ELSE {}) \cup {(hi - last) + 1}

UnitSeconds(unit) ==
    CASE unit = "s" -> 1 [] unit = "m" -> 60 [] unit = "h" -> 3600
      [] unit = "d" -> 86400 [] unit = "w" -> 604800

MonthLengths == {28, 29, 30, 31}

\* the times between consecutive fires of a cron expression every() builds
FireGaps(c) ==
    IF Len(c) = 6 THEN FieldGaps(c[1].n, 0, 59)
    ELSE IF c[1] # Num(0) THEN {60 * g : g \in FieldGaps(c[1].n, 0, 59)}
    ELSE IF c[2] # Num(0) THEN {3600 * g : g \in FieldGaps(c[2].n, 0, 23)}
    ELSE IF c[5] = Num(0) THEN {604800}
    ELSE IF c[3] = Star THEN {86400}
    ELSE UNION { {86400 * g : g \in FieldGaps(c[3].n, 1, L)} : L \in MonthLengths }

C40_FiresEveryInterval ==
    (calc.fn = "every" /\ calc.done /\ calc.out.ok) =>
        LET p == parseInterval(calc.interval)
        IN  FireGaps(calc.out.cron) = {p.value * UnitSeconds(p.unit)}

====
